---- MODULE Spec2Model ----
(***************************************************************************)
(* A model of the key-value store: the record codec, the sorted runs       *)
(* (SSTables), the compactor, the background file deleter, and the write   *)
(* and read paths of KVStorage (src/src/lib.rs): KVStorage::write with its *)
(* log rotation, and KVStorage::read.                                      *)
(*                                                                         *)
(* Files are sequences of cells: the bytes of a record's length prefix and *)
(* the units of its payload.  FILE_SIZE_BYTES is scaled down.              *)
(***************************************************************************)
EXTENDS Integers, Sequences, FiniteSets, TLC

\* ------------------------------------------------------------------ bounds
NumThreads == 2
MaxKey == 2
MaxValue == 2
\* src/src/lib.rs:20 is 16 KiB; the model counts cells and scales it down.
FILE_SIZE_BYTES == 9

\* ------------------------------------------------------- program constants
STRUCT_LEN_BYTES == 3
TABLE_TO_INDEX_RATIO == 128
MIN_TABLES_IN_MERGE == 4
MAX_TABLES_IN_MERGE == 30
MAX_RETRIES == 10

Threads == 1..NumThreads
Keys == 1..MaxKey
Values == 1..MaxValue

\* Option<Value>: <<>> is None (a tombstone), <<v>> is Some(v).
NoneValue == <<>>
SomeValue(v) == <<v>>
OptionValues == {NoneValue} \cup {SomeValue(v) : v \in Values}
\* A value whose record is longer than a log file.  Key and Value are u64
\* (lib.rs:33-34) and a log file has 16 KiB, so no record of the build is
\* that long; the value stands for data.size() > FILE_SIZE_BYTES as the
\* write path, a function of data.size(), treats it.
BigValue == SomeValue(MaxValue + 1)

\* KVMemoryRepr.  ver is a history tag (the number of the write call that
\* made the record, per key); no operator of the program reads it.
KVMemoryRepr(k, v, n) == [key |-> k, value |-> v, valid |-> TRUE, ver |-> n]

NoEntry == [key |-> 0, value |-> NoneValue, valid |-> FALSE, ver |-> 0]

\* ------------------------------------------------------------ record codec
\* A cell of a file: a byte of a length prefix (a zero byte of an unwritten
\* part of a file is the byte 0), or unit i of the payload of entry e.
ByteCell(b) == [kind |-> "byte", n |-> b, entry |-> NoEntry]
ZeroCell == ByteCell(0)
DataCell(e, i) == [kind |-> "data", n |-> i, entry |-> e]

\* bitcode::encode(data).len(): a tombstone encodes shorter than a value.
EncodedLen(e) ==
    IF e.value = NoneValue THEN 1
    ELSE IF e.value = BigValue THEN FILE_SIZE_BYTES - STRUCT_LEN_BYTES + 1
    ELSE 2

\* serialize_length: little-endian, STRUCT_LEN_BYTES bytes; [ok, bytes].
serialize_length(length) ==
    LET max_length == 2 ^ (STRUCT_LEN_BYTES * 8) - 1 IN
    IF length > max_length THEN [ok |-> FALSE, bytes |-> <<>>]
    ELSE [ok |-> TRUE,
          bytes |-> [i \in 1..STRUCT_LEN_BYTES |->
                        ByteCell((length \div (2 ^ ((i - 1) * 8))) % 256)]]

\* serialize: the length prefix, then the payload.
serialize(e) ==
    serialize_length(EncodedLen(e)).bytes
        \o [i \in 1..EncodedLen(e) |-> DataCell(e, i)]

SerializedLen(e) == Len(serialize(e))

\* deserialize_length: the prefix read back as a number.
RECURSIVE deserialize_length(_)
deserialize_length(bytes) ==
    IF bytes = <<>> THEN 0
    ELSE bytes[1].n + 256 * deserialize_length(Tail(bytes))

AllZero(bytes) == \A i \in 1..Len(bytes) : bytes[i] = ZeroCell

\* bitcode::decode of the payload: it succeeds on what encode produced.
DecodeOk(struct_bytes) ==
    /\ Len(struct_bytes) >= 1
    /\ struct_bytes[1].kind = "data"
    /\ Len(struct_bytes) = EncodedLen(struct_bytes[1].entry)
    /\ \A i \in 1..Len(struct_bytes) :
          struct_bytes[i] = DataCell(struct_bytes[1].entry, i)

\* deserialize: [ok, entry, rest].
deserialize(bytes) ==
    LET bad == [ok |-> FALSE, entry |-> NoEntry, rest |-> bytes] IN
    IF Len(bytes) < STRUCT_LEN_BYTES THEN bad
    ELSE LET struct_len == deserialize_length(SubSeq(bytes, 1, STRUCT_LEN_BYTES)) IN
         IF struct_len = 0 THEN bad
         ELSE IF Len(bytes) < STRUCT_LEN_BYTES + struct_len THEN bad
         ELSE LET struct_bytes == SubSeq(bytes, STRUCT_LEN_BYTES + 1,
                                         STRUCT_LEN_BYTES + struct_len) IN
              IF ~DecodeOk(struct_bytes) THEN bad
              ELSE [ok |-> TRUE, entry |-> struct_bytes[1].entry,
                    rest |-> SubSeq(bytes, STRUCT_LEN_BYTES + struct_len + 1,
                                    Len(bytes))]

\* A scanner that stops at any error and returns what it has.
RECURSIVE ScanStopAtError(_, _)
ScanStopAtError(remaining_slice, kv_entries) ==
    IF remaining_slice = <<>> THEN [ok |-> TRUE, entries |-> kv_entries]
    ELSE LET p == deserialize(remaining_slice) IN
         IF p.ok
         THEN ScanStopAtError(p.rest, Append(kv_entries, p.entry))
         ELSE [ok |-> TRUE, entries |-> kv_entries]

\* deserialize_entries_from_bytes: [ok, entries].
RECURSIVE ScanFrom(_, _)
ScanFrom(remaining_slice, kv_entries) ==
    IF remaining_slice = <<>> THEN [ok |-> TRUE, entries |-> kv_entries]
    ELSE LET p == deserialize(remaining_slice) IN
         IF p.ok
         THEN ScanFrom(p.rest,
                       IF p.entry.valid THEN Append(kv_entries, p.entry)
                       ELSE kv_entries)
         ELSE IF AllZero(remaining_slice)
              THEN [ok |-> TRUE, entries |-> kv_entries]
              ELSE [ok |-> FALSE, entries |-> <<>>]

deserialize_entries_from_bytes(buffer) == ScanFrom(buffer, <<>>)

\* ------------------------------------------------------------- sorted runs
\* Vec::sort by key (stable): insertion of each element after the elements
\* whose key is not greater.
RECURSIVE StableInsert(_, _)
StableInsert(sorted, e) ==
    IF sorted = <<>> THEN <<e>>
    ELSE IF sorted[Len(sorted)].key <= e.key THEN Append(sorted, e)
    ELSE Append(StableInsert(SubSeq(sorted, 1, Len(sorted) - 1), e),
                sorted[Len(sorted)])

RECURSIVE StableSort(_)
StableSort(s) ==
    IF s = <<>> THEN <<>>
    ELSE StableInsert(StableSort(SubSeq(s, 1, Len(s) - 1)), s[Len(s)])

\* A deduplication that keeps the first record of a key, not the last.
RECURSIVE DedupKeepFirst(_, _)
DedupKeepFirst(log_file_entries, entries) ==
    IF log_file_entries = <<>> THEN entries
    ELSE LET entry == Head(log_file_entries) IN
         IF entries # <<>> /\ entries[Len(entries)].key = entry.key
         THEN DedupKeepFirst(Tail(log_file_entries), entries)
         ELSE DedupKeepFirst(Tail(log_file_entries), Append(entries, entry))

\* The deduplication loop of log_content_to_index_and_data: a record whose key
\* equals the last kept one replaces it.
RECURSIVE Dedup(_, _)
Dedup(log_file_entries, entries) ==
    IF log_file_entries = <<>> THEN entries
    ELSE LET entry == Head(log_file_entries) IN
         IF entries # <<>> /\ entries[Len(entries)].key = entry.key
         THEN Dedup(Tail(log_file_entries),
                    [entries EXCEPT ![Len(entries)] = entry])
         ELSE Dedup(Tail(log_file_entries), Append(entries, entry))

RECURSIVE Concat(_)
Concat(ss) == IF ss = <<>> THEN <<>> ELSE Head(ss) \o Concat(Tail(ss))

Max2(a, b) == IF a >= b THEN a ELSE b

\* total_offset of record i (0-based byte offset of its first cell).
RECURSIVE OffsetOf(_, _)
OffsetOf(entries, i) ==
    IF i <= 1 THEN 0
    ELSE OffsetOf(entries, i - 1) + SerializedLen(entries[i - 1])

RECURSIVE IndexFrom(_, _, _)
IndexFrom(entries, index_interval, i) ==
    IF i > Len(entries) THEN <<>>
    ELSE (IF index_interval > 0 /\ (i - 1) % index_interval = 0
          THEN <<[key |-> entries[i].key, offset |-> OffsetOf(entries, i)]>>
          ELSE <<>>) \o IndexFrom(entries, index_interval, i + 1)

\* entries_to_index_and_data: the index, the file bytes and the bloom filter.
\* The bloom filter is the set of keys it answers true for: the keys set in
\* it, and fp, the keys it answers true for by chance.
IndexAndData(entries, fp, index_size) ==
    LET index_interval == Len(entries) \div index_size
    IN [index |-> IndexFrom(entries, index_interval, 1),
        data |-> Concat([i \in 1..Len(entries) |-> serialize(entries[i])]),
        bloom |-> {entries[i].key : i \in 1..Len(entries)} \cup fp]

\* With the build's constants index_size is 16384 / 128 = 128; with the
\* scaled FILE_SIZE_BYTES it is 1.
entries_to_index_and_data(entries, fp) ==
    IndexAndData(entries, fp, Max2(FILE_SIZE_BYTES \div TABLE_TO_INDEX_RATIO, 1))

\* log_content_to_index_and_data: [ok, index, data, bloom].
log_content_to_index_and_data(log_file_content, fp) ==
    LET scanned == deserialize_entries_from_bytes(log_file_content) IN
    IF ~scanned.ok THEN [ok |-> FALSE, index |-> <<>>, data |-> <<>>, bloom |-> {}]
    ELSE LET r == entries_to_index_and_data(
                      Dedup(StableSort(scanned.entries), <<>>), fp)
         IN [ok |-> TRUE, index |-> r.index, data |-> r.data, bloom |-> r.bloom]

\* SSTable: the file's bytes stand for the file (create_sstable_file writes
\* exactly sstable_data; file_size is its length).
SSTable(id, r) ==
    [id |-> id, index |-> r.index, file |-> r.data,
     file_size |-> Len(r.data), bloom_filter |-> r.bloom]

\* binary_search_by_key over a list sorted by key: <<found, position>>, the
\* position 1-based; on a miss, the place the key would be inserted at.
BinarySearch(keys, key) ==
    IF \E i \in 1..Len(keys) : keys[i] = key
    THEN <<TRUE, CHOOSE i \in 1..Len(keys) : keys[i] = key>>
    ELSE <<FALSE, 1 + Cardinality({i \in 1..Len(keys) : keys[i] < key})>>

\* A window that, on a miss, starts at the index entry after the key.
IndexToRangeNext(key, index) ==
    LET pos == BinarySearch([i \in 1..Len(index) |-> index[i].key], key)
        idx == pos[2]
    IN IF pos[1]
       THEN <<index[idx].offset,
              IF idx + 1 <= Len(index) THEN index[idx + 1].offset ELSE -1>>
       ELSE <<IF idx <= Len(index) THEN index[idx].offset ELSE 0,
              IF idx + 1 <= Len(index) THEN index[idx + 1].offset ELSE -1>>

\* index_to_range: <<start_offset, end_offset>>, -1 for no end (None).
index_to_range(key, index) ==
    LET pos == BinarySearch([i \in 1..Len(index) |-> index[i].key], key)
        idx == pos[2]
    IN IF pos[1]
       THEN <<index[idx].offset,
              IF idx + 1 <= Len(index) THEN index[idx + 1].offset ELSE -1>>
       ELSE <<IF idx > 1 THEN index[idx - 1].offset ELSE 0,
              IF idx <= Len(index) THEN index[idx].offset ELSE -1>>

FoundResult(e) == [kind |-> "Found", value |-> e.value, ver |-> e.ver]
TombstoneResult(e) == [kind |-> "Tombstone", value |-> NoneValue, ver |-> e.ver]
NoneResult == [kind |-> "None", value |-> NoneValue, ver |-> 0]
ErrResult == [kind |-> "Err", value |-> NoneValue, ver |-> 0]

EntryResult(e) ==
    IF e.value = NoneValue THEN TombstoneResult(e) ELSE FoundResult(e)

\* SSTable::find
SSTableFind(t, key) ==
    IF key \notin t.bloom_filter THEN NoneResult
    ELSE LET range == index_to_range(key, t.index)
             range_start == range[1]
             range_end == IF range[2] = -1 THEN t.file_size ELSE range[2]
             buffer == SubSeq(t.file, range_start + 1, range_end)
             scanned == deserialize_entries_from_bytes(buffer)
         IN IF ~scanned.ok THEN ErrResult
            ELSE LET entries == scanned.entries
                     hit == BinarySearch([i \in 1..Len(entries) |-> entries[i].key], key)
                 IN IF hit[1] THEN EntryResult(entries[hit[2]]) ELSE NoneResult

\* --------------------------------------------------------------- compactor
\* get_bucket
get_bucket(size) ==
    IF size = 0 THEN 0
    ELSE LET size_in_mb == size \div 1000000 IN
         IF size_in_mb < 10 THEN 0
         ELSE IF size_in_mb < 100 THEN 1
         ELSE IF size_in_mb < 1000 THEN 2
         ELSE IF size_in_mb < 10000 THEN 3
         ELSE 4

\* A scan backwards that does not stop at MAX_TABLES_IN_MERGE.
RECURSIVE GroupStartNoCap(_, _, _)
GroupStartNoCap(sizes, group_end, group_start) ==
    IF group_start > 0
         /\ get_bucket(sizes[group_start]) = get_bucket(sizes[group_end])
    THEN GroupStartNoCap(sizes, group_end, group_start - 1)
    ELSE group_start

\* The inner loop of find_sstables_to_merge: group_start scanned backwards.
\* Positions are 0-based as in the source; sizes[i + 1] is table i.
RECURSIVE GroupStart(_, _, _)
GroupStart(sizes, group_end, group_start) ==
    IF group_start > 0 /\ (group_end - group_start) < MAX_TABLES_IN_MERGE
         /\ get_bucket(sizes[group_start]) = get_bucket(sizes[group_end])
    THEN GroupStart(sizes, group_end, group_start - 1)
    ELSE group_start

RECURSIVE PlanFrom(_, _)
PlanFrom(sizes, i) ==
    IF i <= 0 THEN <<>>
    ELSE LET group_end == i
             group_start == GroupStart(sizes, group_end, i - 1)
         IN (IF group_end - group_start >= MIN_TABLES_IN_MERGE
             THEN <<<<group_start, group_end>>>> ELSE <<>>)
            \o PlanFrom(sizes, group_start)

\* find_sstables_to_merge: half-open ranges <<start, end>>, 0-based.
find_sstables_to_merge(sstables_list) ==
    PlanFrom([i \in 1..Len(sstables_list) |-> sstables_list[i].file_size],
             Len(sstables_list))

\* A merge that keeps the oldest record of a key, not the newest.
RECURSIVE MergeOldestWins(_, _)
MergeOldestWins(lists, save_tombstones) ==
    LET heads == {i \in 1..Len(lists) : lists[i] # <<>>} IN
    IF heads = {} THEN <<>>
    ELSE LET min_key == CHOOSE k \in {lists[i][1].key : i \in heads} :
                            \A i \in heads : k <= lists[i][1].key
             takers == {i \in heads : lists[i][1].key = min_key}
             last == CHOOSE i \in takers : \A j \in takers : i >= j
             kv == lists[last][1]
             rest == [i \in 1..Len(lists) |->
                        IF i \in takers THEN Tail(lists[i]) ELSE lists[i]]
         IN (IF save_tombstones \/ kv.value # NoneValue THEN <<kv>> ELSE <<>>)
            \o MergeOldestWins(rest, save_tombstones)

\* A merge that drops every tombstone, whatever save_tombstones says.
RECURSIVE MergeNoTombstones(_, _)
MergeNoTombstones(lists, save_tombstones) ==
    LET heads == {i \in 1..Len(lists) : lists[i] # <<>>} IN
    IF heads = {} THEN <<>>
    ELSE LET min_key == CHOOSE k \in {lists[i][1].key : i \in heads} :
                            \A i \in heads : k <= lists[i][1].key
             takers == {i \in heads : lists[i][1].key = min_key}
             first == CHOOSE i \in takers : \A j \in takers : i <= j
             kv == lists[first][1]
             rest == [i \in 1..Len(lists) |->
                        IF i \in takers THEN Tail(lists[i]) ELSE lists[i]]
         IN (IF kv.value # NoneValue THEN <<kv>> ELSE <<>>)
            \o MergeNoTombstones(rest, save_tombstones)

\* merge_sstable_contents: lists newest first, each sorted by key.
RECURSIVE merge_sstable_contents(_, _)
merge_sstable_contents(lists, save_tombstones) ==
    LET heads == {i \in 1..Len(lists) : lists[i] # <<>>} IN
    IF heads = {} THEN <<>>
    ELSE LET min_key == CHOOSE k \in {lists[i][1].key : i \in heads} :
                            \A i \in heads : k <= lists[i][1].key
             takers == {i \in heads : lists[i][1].key = min_key}
             first == CHOOSE i \in takers : \A j \in takers : i <= j
             kv == lists[first][1]
             rest == [i \in 1..Len(lists) |->
                        IF i \in takers THEN Tail(lists[i]) ELSE lists[i]]
         IN (IF save_tombstones \/ kv.value # NoneValue THEN <<kv>> ELSE <<>>)
            \o merge_sstable_contents(rest, save_tombstones)

\* merge_sstables: [ok, index, data, bloom] of the merged run.
merge_sstables(tables, save_tombstones, fp) ==
    LET scans == [i \in 1..Len(tables) |->
                     deserialize_entries_from_bytes(tables[i].file)]
    IN IF \E i \in 1..Len(tables) : ~scans[i].ok
       THEN [ok |-> FALSE, index |-> <<>>, data |-> <<>>, bloom |-> {}]
       ELSE LET merged == merge_sstable_contents(
                              [i \in 1..Len(tables) |-> scans[i].entries],
                              save_tombstones)
                r == entries_to_index_and_data(merged, fp)
            IN [ok |-> TRUE, index |-> r.index, data |-> r.data, bloom |-> r.bloom]

\* ------------------------------------------------------------------- state
\* More bounds: the calls made in each specification.
MaxWrites == 3
MaxReads == 1
MaxMonoWrites == 3
MaxMonoReads == 2
MaxSeqWrites == 5
MaxSeqReads == 1
MaxCompactWrites == 7
MaxFailWrites == 4
MaxRuns == 5
MaxBigWrites == 3
MaxBigLogs == 6
MaxDeleteWrites == 3
MaxOrderWrites == 4
MaxOneMerges == 1
MaxPlanRuns == 34
MaxHeldReads == 2
MaxIndexKey == 5
MaxIndexSize == 3
MaxScanRecords == 2
MaxScanZeros == 4
MaxLockWrites == 1
MaxLockReads == 1
MaxGroupWrites == 3

NoThread == 0
NoLog == 0

VARIABLES
    logs,         \* log id -> [file, mem]: a log file's bytes, its in-memory mirror
    append_log,   \* the current log: [file |-> log id, offset |-> write offset]
    logLock,      \* holder of KVStorage.append_log (a Mutex), or NoThread
    sstables,     \* the run list, newest first
    th,           \* per thread: the call it is in and its locals
    compacting,   \* CompactorManager.currently_compacting
    worker,       \* the compaction worker: its position and locals
    poisoned,     \* the run list's mutex was poisoned by a panic of its holder
    pending,      \* ids handed to background_file_delete, their threads running
    disk,         \* ids of the files whose paths exist
    nextId,       \* the next fresh id (rand::random::<u64>())
    hist,         \* history: per key, the write calls in call order
    seen,         \* history: per key, the write numbers that reads have returned
    writers,      \* history: per key, the threads that called write on it
    nreads,       \* history: the number of read calls made
    applied       \* history: what the last applied merge did

vars == <<logs, append_log, logLock, sstables, th, compacting, worker,
          poisoned, pending, disk, nextId, hist, seen, writers, nreads, applied>>

logVars == <<logLock>>
histVars == <<hist, seen, writers, nreads, applied>>

EmptyFile == [i \in 1..FILE_SIZE_BYTES |-> ZeroCell]

\* history: the log and the write offset a rotation found (none).
NoAttempt == [file |-> NoLog, offset |-> 0]

IdleThread ==
    [pc |-> "idle", last |-> "none", key |-> 0, data |-> NoEntry, slot |-> 0,
     log |-> NoLog, old |-> NoLog, table |-> <<>>, res |-> NoneResult,
     floor |-> 0, allDone |-> FALSE, calm |-> FALSE, seenAtStart |-> {},
     before |-> <<>>, quiet |-> FALSE, attempt |-> NoAttempt]

IdleWorker ==
    [pc |-> "idle", current_state |-> <<>>, to_merge |-> <<>>,
     merged |-> <<>>, i |-> 0]

NothingApplied == [n |-> 0, dropped |-> FALSE, prepended |-> FALSE]

Init ==
    /\ logs = (1 :> [file |-> EmptyFile, mem |-> <<>>])
    /\ append_log = [file |-> 1, offset |-> 0]
    /\ logLock = NoThread
    /\ sstables = <<>>
    /\ th = [t \in Threads |-> IdleThread]
    /\ compacting = FALSE
    /\ worker = IdleWorker
    /\ poisoned = FALSE
    /\ pending = {}
    /\ disk = {1}
    /\ nextId = 2
    /\ hist = [k \in Keys |-> <<>>]
    /\ seen = [k \in Keys |-> {}]
    /\ writers = [k \in Keys |-> {}]
    /\ nreads = 0
    /\ applied = NothingApplied

RECURSIVE SumLen(_, _)
SumLen(f, ks) ==
    IF ks = {} THEN 0
    ELSE LET k == CHOOSE x \in ks : TRUE IN Len(f[k]) + SumLen(f, ks \ {k})

NumWrites == SumLen(hist, Keys)

\* history: the number of the last write of k that returned Ok (0: none).
LastDone(h, k) ==
    LET d == {i \in 1..Len(h[k]) : h[k][i].done} IN
    IF d = {} THEN 0 ELSE CHOOSE i \in d : \A j \in d : j <= i

AllDone(h, k) == \A i \in 1..Len(h[k]) : h[k][i].done

\* The ids of the run objects some thread of the compactor still holds.
WorkerTables ==
    {worker.current_state[i].id : i \in 1..Len(worker.current_state)}
        \cup {worker.merged[i].id : i \in 1..Len(worker.merged)}

\* The log objects still in use: the engine's, a slot holder's, a rotating
\* writer's.
LogRefs(al, t) ==
    {al.file} \cup {t[x].log : x \in Threads} \cup {t[x].old : x \in Threads}

Prune(lg, refs) == [id \in (DOMAIN lg) \cap refs |-> lg[id]]

\* write_data_at_offset: a positional write of the bytes at the offset.
write_data_at_offset(file, serialized, offset) ==
    [i \in 1..Len(file) |->
        IF i > offset /\ i <= offset + Len(serialized)
        THEN serialized[i - offset] ELSE file[i]]

\* A reservation that leaves the write offset where it was.
AcquireNoAdvance(requested_size, current_write_offset) ==
    LET remaining_space == FILE_SIZE_BYTES - current_write_offset IN
    IF requested_size > remaining_space
    THEN [ok |-> FALSE, slot |-> 0, offset |-> current_write_offset]
    ELSE [ok |-> TRUE, slot |-> current_write_offset,
          offset |-> current_write_offset]

\* acquire_log_slot / AppendLog::calculate_log_slot: [ok, slot, offset].
acquire_log_slot(requested_size, current_write_offset) ==
    LET remaining_space == FILE_SIZE_BYTES - current_write_offset IN
    IF requested_size > remaining_space
    THEN [ok |-> FALSE, slot |-> 0, offset |-> current_write_offset]
    ELSE [ok |-> TRUE, slot |-> current_write_offset,
          offset |-> current_write_offset + requested_size]

\* A search of the mirror that starts at its oldest record.
RECURSIVE MirrorFindOldest(_, _)
MirrorFindOldest(mem, key) ==
    IF mem = <<>> THEN NoneResult
    ELSE IF mem[1].key = key THEN EntryResult(mem[1])
    ELSE MirrorFindOldest(Tail(mem), key)

\* The loop of KVStorage::read over the mirror, newest first.
RECURSIVE MirrorFind(_, _)
MirrorFind(mem, key) ==
    IF mem = <<>> THEN NoneResult
    ELSE IF mem[Len(mem)].key = key THEN EntryResult(mem[Len(mem)])
    ELSE MirrorFind(SubSeq(mem, 1, Len(mem) - 1), key)

\* A search of the run list that starts at its oldest run.
RECURSIVE TablesFindOldest(_, _)
TablesFindOldest(current_sstables_state, key) ==
    IF current_sstables_state = <<>> THEN NoneResult
    ELSE LET n == Len(current_sstables_state)
             res == SSTableFind(current_sstables_state[n], key)
         IN IF res.kind = "None"
            THEN TablesFindOldest(SubSeq(current_sstables_state, 1, n - 1), key)
            ELSE res

\* The loop of KVStorage::read over the snapshot of the run list.
RECURSIVE TablesFind(_, _)
TablesFind(current_sstables_state, key) ==
    IF current_sstables_state = <<>> THEN NoneResult
    ELSE LET res == SSTableFind(Head(current_sstables_state), key) IN
         IF res.kind = "None" THEN TablesFind(Tail(current_sstables_state), key)
         ELSE res

\* The Option<Value> a read with this result returns.
ResValue(res) == IF res.kind = "Found" THEN res.value ELSE NoneValue

\* What KVStorage::read would return if it ran alone in this state.
ReadNow(lg, al, tables, k) ==
    LET res == MirrorFind(lg[al.file].mem, k) IN
    ResValue(IF res.kind = "None" THEN TablesFind(tables, k) ELSE res)

ReadAll(lg, al, tables) == [k \in Keys |-> ReadNow(lg, al, tables, k)]

\* ---------------------------------------------------------------- actions
\* The keys a bloom filter built now will wrongly report: none, or all.
BloomFalsePositives == {{}, Keys}

\* A bloom filter that happens to have no false positive.
ExactBloom == {{}}

\* ----------------------------------------------- CompactorManager (signal)
\* signal_sstable_inserted: swap(true); a worker is spawned if it was false.
SignalCompacting(was) == TRUE

\* A signal that starts a worker whatever the flag was.
SignalWorkerAlways(was, w) == [IdleWorker EXCEPT !.pc = "check"]

SignalWorker(was, w) ==
    IF was THEN w ELSE [IdleWorker EXCEPT !.pc = "check"]

\* ------------------------------------------------- KVStorage (src/lib.rs)
\* The locals of the threads after t moved to rec on the write path.  quiet
\* is history: a rotation is quiet if no other thread is in a write when it
\* replaces the log, and none takes a step of a write before the insertion.
WriteStep(t, rec) ==
    [x \in Threads |-> IF x = t THEN rec ELSE [th[x] EXCEPT !.quiet = FALSE]]

ReadStep(t, rec) == [th EXCEPT ![t] = rec]

\* One pass of the loop of KVStorage::write up to the match: the lock is
\* taken, acquire_log_slot is tried, the lock is released.  h is the history
\* to extend with the slot.
KVTryAcquire(t, data, h) ==
    LET r == acquire_log_slot(SerializedLen(data), append_log.offset) IN
    /\ logLock = NoThread
    /\ append_log' = [append_log EXCEPT !.offset = r.offset]
    /\ th' = WriteStep(t,
                [th[t] EXCEPT !.pc = IF r.ok THEN "write" ELSE "rotate",
                              !.last = "write", !.key = data.key,
                              !.data = data, !.slot = r.slot,
                              !.log = IF r.ok THEN append_log.file ELSE NoLog])
    /\ hist' = IF r.ok
               THEN [h EXCEPT ![data.key][data.ver] =
                        [@ EXCEPT !.log = append_log.file, !.slot = r.slot]]
               ELSE h

\* KVStorage::write is called.
KVWriteCall(t, k, v, budget) ==
    /\ th[t].pc = "idle"
    /\ NumWrites < budget
    /\ KVTryAcquire(t, KVMemoryRepr(k, v, Len(hist[k]) + 1),
                    [hist EXCEPT ![k] = Append(@,
                        [value |-> v, log |-> NoLog, slot |-> 0, done |-> FALSE])])
    /\ writers' = [writers EXCEPT ![k] = @ \cup {t}]
    /\ UNCHANGED <<logs, logVars, sstables, compacting, worker, poisoned,
                   pending, disk, nextId, seen, nreads, applied>>

\* The loop of KVStorage::write comes round after a rotation.
KVWriteRetry(t) ==
    /\ th[t].pc = "acquire"
    /\ KVTryAcquire(t, th[t].data, hist)
    /\ UNCHANGED <<logs, logVars, sstables, compacting, worker, poisoned,
                   pending, disk, nextId, seen, writers, nreads, applied>>

\* lib.rs:77-88: a new log file replaces the current one under the lock.
KVRotateReplace(t) ==
    /\ th[t].pc = "rotate"
    /\ logLock = NoThread
    /\ append_log' = [file |-> nextId, offset |-> 0]
    /\ th' = WriteStep(t,
                [th[t] EXCEPT !.pc = "build", !.old = append_log.file,
                              !.attempt = append_log,
                              !.before = ReadAll(logs, append_log, sstables),
                              !.quiet = \A u \in Threads \ {t} :
                                           th[u].pc \in {"idle", "tables"}])
    /\ logs' = Prune(logs @@ (nextId :> [file |-> EmptyFile, mem |-> <<>>]),
                     LogRefs(append_log', th'))
    /\ disk' = disk \cup {nextId}
    /\ nextId' = nextId + 1
    /\ UNCHANGED <<logVars, sstables, compacting, worker, poisoned, pending,
                   histVars>>

\* lib.rs:90-93: log_file_to_sstable on the old file, then the old file is
\* handed to background_file_delete.  An error returns from write.
KVRotateBuild(t, fps) ==
    /\ th[t].pc = "build"
    /\ \E fp \in fps :
         LET r == log_content_to_index_and_data(logs[th[t].old].file, fp) IN
         IF r.ok
         THEN /\ th' = WriteStep(t,
                          [th[t] EXCEPT !.pc = "insert", !.old = NoLog,
                                        !.attempt = NoAttempt,
                                        !.table = <<SSTable(nextId, r)>>])
              /\ pending' = pending \cup {th[t].old}
              /\ disk' = disk \cup {nextId}
              /\ nextId' = nextId + 1
         ELSE /\ th' = WriteStep(t,
                          [th[t] EXCEPT !.pc = "idle", !.last = "write_err",
                                        !.old = NoLog, !.data = NoEntry,
                                        !.attempt = NoAttempt,
                                        !.before = <<>>, !.quiet = FALSE])
              /\ UNCHANGED <<pending, disk, nextId>>
    /\ logs' = Prune(logs, LogRefs(append_log, th'))
    /\ UNCHANGED <<append_log, logVars, sstables, compacting, worker, poisoned,
                   histVars>>

\* A rotation that inserts the new run behind the head of the run list.
KVRotateInsertSecond(t) ==
    /\ th[t].pc = "insert"
    /\ ~poisoned
    /\ sstables' = IF sstables = <<>> THEN th[t].table
                   ELSE <<Head(sstables)>> \o th[t].table \o Tail(sstables)
    /\ th' = WriteStep(t,
                [th[t] EXCEPT !.pc = "signal", !.table = <<>>,
                              !.before = <<>>, !.quiet = FALSE])
    /\ UNCHANGED <<logs, append_log, logVars, compacting, worker, poisoned,
                   pending, disk, nextId, histVars>>

\* lib.rs:95-98: the new run is inserted at the head of the run list.
KVRotateInsert(t) ==
    /\ th[t].pc = "insert"
    /\ ~poisoned
    /\ sstables' = th[t].table \o sstables
    /\ th' = WriteStep(t,
                [th[t] EXCEPT !.pc = "signal", !.table = <<>>,
                              !.before = <<>>, !.quiet = FALSE])
    /\ UNCHANGED <<logs, append_log, logVars, compacting, worker, poisoned,
                   pending, disk, nextId, histVars>>

\* lib.rs:100: compaction_manager.signal_sstable_inserted().
KVSignal(t) ==
    /\ th[t].pc = "signal"
    /\ compacting' = SignalCompacting(compacting)
    /\ worker' = SignalWorker(compacting, worker)
    /\ th' = WriteStep(t, [th[t] EXCEPT !.pc = "acquire"])
    /\ UNCHANGED <<logs, append_log, logVars, sstables, poisoned, pending,
                   disk, nextId, histVars>>

\* lib.rs:105: the record is written at its slot of the file the slot is in.
KVWriteFile(t) ==
    /\ th[t].pc = "write"
    /\ logs' = [logs EXCEPT ![th[t].log].file =
                  write_data_at_offset(@, serialize(th[t].data), th[t].slot)]
    /\ th' = WriteStep(t, [th[t] EXCEPT !.pc = "push"])
    /\ UNCHANGED <<append_log, logVars, sstables, compacting, worker, poisoned,
                   pending, disk, nextId, histVars>>

\* lib.rs:107-112: the record is pushed to the mirror; write returns Ok.
KVPush(t) ==
    /\ th[t].pc = "push"
    /\ th' = WriteStep(t,
                [th[t] EXCEPT !.pc = "idle", !.log = NoLog, !.data = NoEntry,
                              !.slot = 0])
    /\ logs' = Prune([logs EXCEPT ![th[t].log].mem = Append(@, th[t].data)],
                     LogRefs(append_log, th'))
    /\ hist' = [hist EXCEPT ![th[t].key][th[t].data.ver].done = TRUE]
    /\ UNCHANGED <<append_log, logVars, sstables, compacting, worker, poisoned,
                   pending, disk, nextId, seen, writers, nreads, applied>>

\* ------------------------------------------------------------ I/O errors
\* lib.rs:80: create_append_log fails (create or set_len of the new file);
\* write returns the error, the lock is released, nothing was replaced.
KVCreateLogFail(t) ==
    /\ th[t].pc = "rotate"
    /\ logLock = NoThread
    /\ th' = WriteStep(t,
                [th[t] EXCEPT !.pc = "idle", !.last = "write_err",
                              !.data = NoEntry])
    /\ UNCHANGED <<logs, append_log, logVars, sstables, compacting, worker,
                   poisoned, pending, disk, nextId, histVars>>

\* lib.rs:90-91: log_file_to_sstable fails on read_file or on
\* create_sstable_file; write returns the error after the log was replaced.
KVRotateBuildFail(t) ==
    /\ th[t].pc = "build"
    /\ th' = WriteStep(t,
                [th[t] EXCEPT !.pc = "idle", !.last = "write_err",
                              !.old = NoLog, !.data = NoEntry,
                              !.attempt = NoAttempt,
                              !.before = <<>>, !.quiet = FALSE])
    /\ logs' = Prune(logs, LogRefs(append_log, th'))
    /\ UNCHANGED <<append_log, logVars, sstables, compacting, worker, poisoned,
                   pending, disk, nextId, histVars>>

\* lib.rs:105: write_data_at_offset fails; write returns the error and the
\* slot it reserved stays as it was.
KVWriteFileFail(t) ==
    /\ th[t].pc = "write"
    /\ th' = WriteStep(t,
                [th[t] EXCEPT !.pc = "idle", !.last = "write_err",
                              !.log = NoLog, !.data = NoEntry, !.slot = 0])
    /\ logs' = Prune(logs, LogRefs(append_log, th'))
    /\ UNCHANGED <<append_log, logVars, sstables, compacting, worker, poisoned,
                   pending, disk, nextId, histVars>>

\* What a read that returns res leaves in the history.
SeenAfter(k, res) ==
    IF res.ver > 0 THEN [seen EXCEPT ![k] = @ \cup {res.ver}] ELSE seen

\* lib.rs:115-129: KVStorage::read is called; it takes the lock and searches
\* the mirror.  On a hit it returns; else it goes on, holding the lock.
KVReadCall(t, k, budget) ==
    /\ th[t].pc = "idle"
    /\ nreads < budget
    /\ logLock = NoThread
    /\ LET res == MirrorFind(logs[append_log.file].mem, k) IN
         /\ th' = ReadStep(t,
                     [th[t] EXCEPT !.pc = IF res.kind = "None" THEN "tables" ELSE "idle",
                                   !.last = "read", !.key = k, !.res = res,
                                   !.floor = LastDone(hist, k),
                                   !.allDone = AllDone(hist, k),
                                   !.calm = \A u \in Threads :
                                               th[u].pc \notin {"build", "insert"},
                                   !.seenAtStart = seen[k]])
         /\ logLock' = IF res.kind = "None" THEN t ELSE NoThread
         /\ seen' = SeenAfter(k, res)
    /\ nreads' = nreads + 1
    /\ UNCHANGED <<logs, append_log, sstables, compacting, worker, poisoned,
                   pending, disk, nextId, hist, writers, applied>>

\* lib.rs:131-151: the run list is cloned and searched in order; the lock on
\* the log is released on return.
KVReadTables(t) ==
    /\ th[t].pc = "tables"
    /\ ~poisoned
    /\ LET res == TablesFind(sstables, th[t].key) IN
         /\ th' = ReadStep(t, [th[t] EXCEPT !.pc = "idle", !.res = res])
         /\ seen' = SeenAfter(th[t].key, res)
    /\ logLock' = NoThread
    /\ UNCHANGED <<logs, append_log, sstables, compacting, worker, poisoned,
                   pending, disk, nextId, hist, writers, nreads, applied>>

\* The same read in two steps.  lib.rs:131-137: the run list is cloned under
\* its lock; the thread holds a handle of every run of the snapshot.
KVReadClone(t) ==
    /\ th[t].pc = "tables"
    /\ ~poisoned
    /\ th' = ReadStep(t, [th[t] EXCEPT !.pc = "find", !.table = sstables])
    /\ UNCHANGED <<logs, append_log, logVars, sstables, compacting, worker,
                   poisoned, pending, disk, nextId, histVars>>

\* lib.rs:139-151: the runs of the snapshot are searched in order (a run
\* whose file is gone gives an error); the handles and the lock on the log
\* are released on return.
KVReadFind(t) ==
    /\ th[t].pc = "find"
    /\ LET res == IF \A i \in 1..Len(th[t].table) : th[t].table[i].id \in disk
                  THEN TablesFind(th[t].table, th[t].key) ELSE ErrResult
       IN /\ th' = ReadStep(t, [th[t] EXCEPT !.pc = "idle", !.res = res,
                                             !.table = <<>>])
          /\ seen' = SeenAfter(th[t].key, res)
    /\ logLock' = NoThread
    /\ UNCHANGED <<logs, append_log, sstables, compacting, worker, poisoned,
                   pending, disk, nextId, hist, writers, nreads, applied>>

\* sstables::find_in_sstable on the newest run of the list, for any key.
FindCall(t, k) ==
    /\ th[t].pc = "idle"
    /\ sstables # <<>>
    /\ th' = ReadStep(t, [th[t] EXCEPT !.last = "find", !.key = k,
                                       !.res = SSTableFind(sstables[1], k)])
    /\ UNCHANGED <<logs, append_log, logVars, sstables, compacting, worker,
                   poisoned, pending, disk, nextId, histVars>>

\* ------------------------------------------------- the compaction worker
\* The position (1-based) of old_ids as a consecutive slice of the list, 0 if
\* there is none: the search of handle_compaction_check for found_start.
FoundStart(locked_sstables, old_ids) ==
    LET starts == {i \in 1..Len(locked_sstables) :
                     /\ i + Len(old_ids) - 1 <= Len(locked_sstables)
                     /\ \A j \in 1..Len(old_ids) :
                           locked_sstables[i + j - 1].id = old_ids[j]}
    IN IF starts = {} THEN 0 ELSE CHOOSE i \in starts : \A j \in starts : i <= j

\* An apply step that puts the new run at the head of the list.
ApplyMergeAtHead(locked_sstables, old_ids, new_sstable) ==
    <<new_sstable>>
        \o SelectSeq(locked_sstables,
                     LAMBDA sstable :
                        \A j \in 1..Len(old_ids) : old_ids[j] # sstable.id)

\* An apply step that installs the new run and keeps the old ones.
ApplyMergeKeepGroup(locked_sstables, old_ids, new_sstable) ==
    <<new_sstable>> \o locked_sstables

\* The new run list of the apply step (the flat_map): the old tables go, the
\* new one takes the place of the first of them.
RECURSIVE ApplyMerge(_, _, _)
ApplyMerge(locked_sstables, old_ids, new_sstable) ==
    IF locked_sstables = <<>> THEN <<>>
    ELSE LET sstable == Head(locked_sstables) IN
         (IF \E j \in 1..Len(old_ids) : old_ids[j] = sstable.id
          THEN (IF sstable.id = old_ids[1] THEN <<new_sstable>> ELSE <<>>)
          ELSE <<sstable>>)
         \o ApplyMerge(Tail(locked_sstables), old_ids, new_sstable)

\* The records of a run, read back from its file.
RunEntries(t) == deserialize_entries_from_bytes(t.file).entries

RunKeys(t) == {RunEntries(t)[i].key : i \in 1..Len(RunEntries(t))}

\* history: the merged run lacks a key that a tombstone of the group held.
DroppedTombstone(old_tables, new_sstable) ==
    \E j \in 1..Len(old_tables) :
       \E i \in 1..Len(RunEntries(old_tables[j])) :
          /\ RunEntries(old_tables[j])[i].value = NoneValue
          /\ RunEntries(old_tables[j])[i].key \notin RunKeys(new_sstable)

\* compactor.rs:71-103: the run list is cloned, the groups are planned and
\* merged (a thread each, all joined).
CompactionCheck ==
    /\ worker.pc = "check"
    /\ ~poisoned
    /\ LET current_state == sstables
           to_merge == find_sstables_to_merge(current_state)
           n == Len(to_merge)
       IN \E fps \in [1..n -> BloomFalsePositives] :
            LET results == [g \in 1..n |->
                   merge_sstables(
                       SubSeq(current_state, to_merge[g][1] + 1, to_merge[g][2]),
                       to_merge[g][2] # Len(current_state), fps[g])]
            IN IF \E g \in 1..n : ~results[g].ok
               THEN /\ worker' = [IdleWorker EXCEPT !.pc = "clear"]
                    /\ UNCHANGED <<disk, nextId>>
               ELSE /\ worker' =
                        [pc |-> IF n = 0 THEN "clear" ELSE "apply",
                         current_state |-> IF n = 0 THEN <<>> ELSE current_state,
                         to_merge |-> to_merge,
                         merged |-> [g \in 1..n |-> SSTable(nextId + g - 1, results[g])],
                         i |-> 1]
                    /\ disk' = disk \cup {nextId + g - 1 : g \in 1..n}
                    /\ nextId' = nextId + n
    /\ UNCHANGED <<logs, append_log, logVars, sstables, th, compacting,
                   poisoned, pending, histVars>>

\* compactor.rs:100-103: a merge returned an error (read_file or
\* create_sstable_file failed); the `?` ends the pass and the worker's loop.
CompactionCheckFail ==
    /\ worker.pc = "check"
    /\ ~poisoned
    /\ find_sstables_to_merge(sstables) # <<>>
    /\ worker' = [IdleWorker EXCEPT !.pc = "clear"]
    /\ UNCHANGED <<logs, append_log, logVars, sstables, th, compacting,
                   poisoned, pending, disk, nextId, histVars>>

\* compactor.rs:86-96 for one group given as <<start, end>>: the group a plan
\* holds when the sizes of the runs put runs start..end-1 in one bucket.
MergeGroup(start, end) ==
    /\ worker.pc = "check"
    /\ ~poisoned
    /\ LET current_state == sstables
           r == merge_sstables(SubSeq(current_state, start + 1, end),
                               end # Len(current_state), {})
       IN /\ r.ok
          /\ worker' = [pc |-> "apply", current_state |-> current_state,
                        to_merge |-> <<<<start, end>>>>,
                        merged |-> <<SSTable(nextId, r)>>, i |-> 1]
    /\ disk' = disk \cup {nextId}
    /\ nextId' = nextId + 1
    /\ UNCHANGED <<logs, append_log, logVars, sstables, th, compacting,
                   poisoned, pending, histVars>>

\* compactor.rs:106-158: one turn of the loop that installs the merged runs.
CompactionApply ==
    /\ worker.pc = "apply"
    /\ ~poisoned
    /\ LET start == worker.to_merge[worker.i][1]
           end == worker.to_merge[worker.i][2]
           old_tables == SubSeq(worker.current_state, start + 1, end)
           old_ids == [j \in 1..Len(old_tables) |-> old_tables[j].id]
           found_start == FoundStart(sstables, old_ids)
           more == worker.i < Len(worker.to_merge)
       IN IF found_start = 0
          THEN /\ poisoned' = TRUE
               /\ worker' = [IdleWorker EXCEPT !.pc = "panicked"]
               /\ UNCHANGED <<sstables, pending, applied>>
          ELSE /\ sstables' = ApplyMerge(sstables, old_ids, worker.merged[worker.i])
               /\ pending' = pending \cup {old_ids[j] : j \in 1..Len(old_ids)}
               /\ worker' = IF more THEN [worker EXCEPT !.i = @ + 1]
                            ELSE [IdleWorker EXCEPT !.pc = "check"]
               /\ applied' =
                    [n |-> 1,
                     dropped |-> DroppedTombstone(old_tables, worker.merged[worker.i]),
                     prepended |-> Len(sstables) > Len(worker.current_state)]
               /\ UNCHANGED poisoned
    /\ UNCHANGED <<logs, append_log, logVars, th, compacting, disk, nextId,
                   hist, seen, writers, nreads>>

\* compactor.rs:46: compacting.store(false); the worker ends.
CompactionClear ==
    /\ worker.pc = "clear"
    /\ compacting' = FALSE
    /\ worker' = IdleWorker
    /\ UNCHANGED <<logs, append_log, logVars, sstables, th, poisoned, pending,
                   disk, nextId, histVars>>

\* ------------------------------------------------------ deferred deleter
\* The other owners of the object a deleter holds: the engine, the threads
\* and the compaction worker.
OtherOwners(id) ==
    \/ id = append_log.file
    \/ \E t \in Threads : th[t].log = id \/ th[t].old = id
    \/ \E t \in Threads : \E i \in 1..Len(th[t].table) : th[t].table[i].id = id
    \/ \E i \in 1..Len(sstables) : sstables[i].id = id
    \/ id \in WorkerTables

\* A deleter that removes the file whoever else holds the object.
DeleterCleanAlways(id) ==
    /\ id \in pending
    /\ pending' = pending \ {id}
    /\ disk' = disk \ {id}
    /\ UNCHANGED <<logs, append_log, logVars, sstables, th, compacting, worker,
                   poisoned, nextId, histVars>>

\* cleanup.rs:56-62: Arc::try_unwrap succeeds; the file is removed.
DeleterClean(id) ==
    /\ id \in pending
    /\ ~OtherOwners(id)
    /\ pending' = pending \ {id}
    /\ disk' = disk \ {id}
    /\ UNCHANGED <<logs, append_log, logVars, sstables, th, compacting, worker,
                   poisoned, nextId, histVars>>

\* cleanup.rs:53-64: every one of the MAX_RETRIES attempts found another
\* owner; the deleter gives up and the file stays.
DeleterGiveUp(id) ==
    /\ id \in pending
    /\ OtherOwners(id)
    /\ pending' = pending \ {id}
    /\ UNCHANGED <<logs, append_log, logVars, sstables, th, compacting, worker,
                   poisoned, disk, nextId, histVars>>

Compactor == CompactionCheck \/ CompactionApply \/ CompactionClear

Deleter == \E id \in pending : DeleterClean(id) \/ DeleterGiveUp(id)

\* ---------------------------------------------------------- specifications
\* The values written where two values are enough.
FewValues == {NoneValue, SomeValue(1)}

KVWrite(t, fps) ==
    \/ KVWriteRetry(t)
    \/ KVRotateReplace(t)
    \/ KVRotateBuild(t, fps)
    \/ KVRotateInsert(t)
    \/ KVSignal(t)
    \/ KVWriteFile(t)
    \/ KVPush(t)

KVThread(t) ==
    \/ \E k \in Keys, v \in FewValues : KVWriteCall(t, k, v, MaxWrites)
    \/ KVWrite(t, ExactBloom)
    \/ \E k \in Keys : KVReadCall(t, k, MaxReads)
    \/ KVReadTables(t)

\* The client threads call write and read concurrently; the compaction
\* worker, a thread of its own, is not scheduled.
Next == \E t \in Threads : KVThread(t)

Spec == Init /\ [][Next]_vars

\* One thread writes one key, another reads it; the compaction worker is not
\* scheduled.
NextMono ==
    \/ \E v \in OptionValues : KVWriteCall(1, 1, v, MaxMonoWrites)
    \/ KVWrite(1, ExactBloom)
    \/ KVReadCall(2, 1, MaxMonoReads)
    \/ KVReadTables(2)

SpecMono == Init /\ [][NextMono]_vars

\* One client thread writes and reads; the compaction worker runs beside it.
NextSeq ==
    \/ \E k \in Keys, v \in FewValues : KVWriteCall(1, k, v, MaxSeqWrites)
    \/ KVWrite(1, BloomFalsePositives)
    \/ \E k \in Keys : KVReadCall(1, k, MaxSeqReads)
    \/ KVReadTables(1)
    \/ Compactor

SpecSeq == Init /\ [][NextSeq]_vars

\* One client thread writes; the compaction worker runs beside it.
NextCompact ==
    \/ \E k \in Keys, v \in FewValues : KVWriteCall(1, k, v, MaxCompactWrites)
    \/ KVWrite(1, ExactBloom)
    \/ Compactor

SpecCompact == Init /\ [][NextCompact]_vars

\* One client thread writes; any file operation of a write may fail.
NextFail ==
    \/ \E k \in Keys, v \in FewValues : KVWriteCall(1, k, v, MaxFailWrites)
    \/ KVWrite(1, ExactBloom)
    \/ KVCreateLogFail(1)
    \/ KVRotateBuildFail(1)
    \/ KVWriteFileFail(1)

SpecFail == Init /\ [][NextFail]_vars

\* One client thread writes; a record may be longer than a log file.  The
\* number of log files created is capped.
NextBig ==
    \/ \E k \in Keys, v \in FewValues \cup {BigValue} :
          KVWriteCall(1, k, v, MaxBigWrites)
    \/ KVWriteRetry(1)
    \/ (nextId <= MaxBigLogs /\ KVRotateReplace(1))
    \/ KVRotateBuild(1, ExactBloom)
    \/ KVRotateInsert(1)
    \/ KVSignal(1)
    \/ KVWriteFile(1)
    \/ KVPush(1)

SpecBig == Init /\ [][NextBig]_vars

\* The client threads write while the deferred deleters run.
NextDelete ==
    \/ \E t \in Threads :
          \/ \E k \in Keys : KVWriteCall(t, k, SomeValue(1), MaxDeleteWrites)
          \/ KVWrite(t, ExactBloom)
    \/ Deleter

SpecDelete == Init /\ [][NextDelete]_vars

\* The client threads write values of one key, so that every record has the
\* same length and several rotations are under way at once.
NextOrder ==
    \E t \in Threads :
       \/ KVWriteCall(t, 1, SomeValue(1), MaxOrderWrites)
       \/ KVWrite(t, ExactBloom)

SpecOrder == Init /\ [][NextOrder]_vars

\* ---------------------------------------------- run lists given as input
\* What a run holds of each key: nothing (0), a tombstone (1), a value (2).
\* A run holds a record; the tombstones are those of key 1.
RunContents ==
    {f \in [Keys -> 0..2] :
        (\E k \in Keys : f[k] # 0) /\ (\A k \in Keys : f[k] = 1 => k = 1)}

RECURSIVE EntriesOf(_, _, _)
EntriesOf(f, n, k) ==
    IF k > MaxKey THEN <<>>
    ELSE (IF f[k] = 0 THEN <<>>
          ELSE <<KVMemoryRepr(k, IF f[k] = 1 THEN NoneValue ELSE SomeValue(1), n)>>)
         \o EntriesOf(f, n, k + 1)

\* The run with this id that holds f; its records carry the id as their tag.
RunOf(id, f) == SSTable(id, entries_to_index_and_data(EntriesOf(f, id, 1), {}))

\* The run lists of n runs, the newest first, the ids n down to 1.
RunListsOf(n) ==
    {[i \in 1..n |-> RunOf(n - i + 1, fs[i])] : fs \in [1..n -> RunContents]}

\* The engine with a run list given, no record in the log, and the compaction
\* worker just started by a signal.
InitWith(tables, w) ==
    /\ logs = ((MaxRuns + 1) :> [file |-> EmptyFile, mem |-> <<>>])
    /\ append_log = [file |-> MaxRuns + 1, offset |-> 0]
    /\ logLock = NoThread
    /\ sstables = tables
    /\ th = [t \in Threads |-> IdleThread]
    /\ compacting = TRUE
    /\ worker = w
    /\ poisoned = FALSE
    /\ pending = {}
    /\ disk = 1..(MaxRuns + 1) \cup {w.merged[i].id : i \in 1..Len(w.merged)}
    /\ nextId = MaxRuns + 3
    /\ hist = [k \in Keys |-> <<>>]
    /\ seen = [k \in Keys |-> {}]
    /\ writers = [k \in Keys |-> {}]
    /\ nreads = 0
    /\ applied = NothingApplied

InitMerge ==
    \E tables \in RunListsOf(MaxRuns) :
       InitWith(tables, [IdleWorker EXCEPT !.pc = "check"])

\* The compaction worker on a run list given, for the plan of the planner and
\* for every group of MIN_TABLES_IN_MERGE consecutive runs or more.
NextMerge ==
    \/ \E start \in 0..MaxRuns, end \in 0..MaxRuns :
          /\ end - start >= MIN_TABLES_IN_MERGE
          /\ end <= Len(sstables)
          /\ MergeGroup(start, end)
    \/ Compactor

SpecMerge == InitMerge /\ [][NextMerge]_vars

\* merge_sstables on a group of one run, anywhere in the list; the number
\* of such merges is capped.
NextOne ==
    \/ \E start \in 0..(MaxRuns - 1) :
          /\ nextId < MaxRuns + 3 + MaxOneMerges
          /\ start + 1 <= Len(sstables)
          /\ MergeGroup(start, start + 1)
    \/ Compactor

SpecOne == InitMerge /\ [][NextOne]_vars

\* ------------------------------- the apply block on the inputs it is given
\* The sequences of n different run ids.
IdListsOf(n) ==
    {ids \in [1..n -> 1..MaxRuns] :
        \A i, j \in 1..n : i # j => ids[i] # ids[j]}

\* A run that holds one record.
OneRecord == [k \in Keys |-> IF k = 1 THEN 2 ELSE 0]

\* The worker at the apply block: its snapshot is the runs
\* MIN_TABLES_IN_MERGE down to 1, its plan the one group of all of them.
Snapshot == [i \in 1..MIN_TABLES_IN_MERGE |->
               RunOf(MIN_TABLES_IN_MERGE + 1 - i, OneRecord)]

AtApply ==
    [pc |-> "apply", current_state |-> Snapshot,
     to_merge |-> <<<<0, MIN_TABLES_IN_MERGE>>>>,
     merged |-> <<SSTable(MaxRuns + 2, merge_sstables(Snapshot, FALSE, {}))>>,
     i |-> 1]

\* The worker at the start of a pass or at the apply block, and a locked run
\* list of any runs in any order: the apply block as a function of the list
\* it finds, whether or not a rotation or a merge can have produced the list.
InitApply ==
    \E n \in {MaxRuns - 1, MaxRuns} :
       \E ids \in IdListsOf(n) :
          \E w \in {[IdleWorker EXCEPT !.pc = "check"], AtApply} :
             InitWith([i \in 1..n |-> RunOf(ids[i], OneRecord)], w)

NextApply == Compactor \/ CompactionCheckFail

SpecApply == InitApply /\ [][NextApply]_vars

\* ------------------------------------------ reads beside merges and deleters
\* A run list the planner merges; the client threads read while the
\* compaction worker merges and the deferred deleters run.
InitRead ==
    \E f \in RunContents :
       InitWith([i \in 1..MaxRuns |-> RunOf(MaxRuns - i + 1, f)],
                [IdleWorker EXCEPT !.pc = "check"])

NextRead ==
    \/ \E t \in Threads :
          \/ \E k \in Keys : KVReadCall(t, k, MaxHeldReads)
          \/ KVReadClone(t)
          \/ KVReadFind(t)
    \/ Compactor
    \/ Deleter

SpecRead == InitRead /\ [][NextRead]_vars

\* ------------------------------------------------ one run and its index
\* One run built by entries_to_index_and_data from a list of records sorted
\* by key, one record per key, over the keys 1..MaxIndexKey (f says of each
\* key: no record, a tombstone, a value), with an index of index_size slots
\* (the build has 128) and a bloom filter with or without false positives.
InitIndex ==
    \E f \in [1..MaxIndexKey -> 0..2], index_size \in 1..MaxIndexSize,
       fp \in {{}, 0..(MaxIndexKey + 1)} :
       LET held == {k \in 1..MaxIndexKey : f[k] # 0}
           entries == [i \in 1..Cardinality(held) |->
              LET k == CHOOSE k \in held :
                          Cardinality({j \in held : j < k}) = i - 1
              IN KVMemoryRepr(k, IF f[k] = 1 THEN NoneValue ELSE SomeValue(1), 1)]
       IN /\ sstables = <<SSTable(1, IndexAndData(entries, fp, index_size))>>
          /\ logs = (2 :> [file |-> EmptyFile, mem |-> <<>>])
          /\ append_log = [file |-> 2, offset |-> 0]
          /\ logLock = NoThread
          /\ th = [t \in Threads |-> IdleThread]
          /\ compacting = FALSE
          /\ worker = IdleWorker
          /\ poisoned = FALSE
          /\ pending = {}
          /\ disk = {1, 2}
          /\ nextId = 3
          /\ hist = [k \in Keys |-> <<>>]
          /\ seen = [k \in Keys |-> {}]
          /\ writers = [k \in Keys |-> {}]
          /\ nreads = 0
          /\ applied = NothingApplied

NextIndex == \E k \in 0..(MaxIndexKey + 1) : FindCall(1, k)

SpecIndex == InitIndex /\ [][NextIndex]_vars

\* --------------------------------------------- the planner on run lists
\* A run of size bucket b.  The planner reads file_size only; the bytes of a
\* run of 10 MB or more are not spelled out.
SizedRun(id, b) ==
    [RunOf(id, OneRecord) EXCEPT !.file_size = IF b = 0 THEN @ ELSE b * 10000000]

\* The compaction worker starts a pass on a run list of up to MaxPlanRuns
\* runs: n1 runs of one bucket, n2 of another, n3 of the first, each number
\* at or next to 0, MIN_TABLES_IN_MERGE or MAX_TABLES_IN_MERGE.
InitPlan ==
    LET lengths == {0, 1, 2,
                    MIN_TABLES_IN_MERGE - 1, MIN_TABLES_IN_MERGE,
                    MIN_TABLES_IN_MERGE + 1,
                    MAX_TABLES_IN_MERGE - 1, MAX_TABLES_IN_MERGE,
                    MAX_TABLES_IN_MERGE + 1, MaxPlanRuns}
    IN
    \E n1 \in lengths, n2 \in lengths, n3 \in lengths :
       \E a \in {0, 1} :
          LET n == n1 + n2 + n3 IN
          /\ n \in 1..MaxPlanRuns
          /\ logs = ((MaxPlanRuns + 1) :> [file |-> EmptyFile, mem |-> <<>>])
          /\ append_log = [file |-> MaxPlanRuns + 1, offset |-> 0]
          /\ logLock = NoThread
          /\ sstables = [i \in 1..n |->
                SizedRun(n - i + 1,
                         IF i <= n1 \/ i > n1 + n2 THEN a ELSE 1 - a)]
          /\ th = [t \in Threads |-> IdleThread]
          /\ compacting = TRUE
          /\ worker = [IdleWorker EXCEPT !.pc = "check"]
          /\ poisoned = FALSE
          /\ pending = {}
          /\ disk = 1..(MaxPlanRuns + 1)
          /\ nextId = MaxPlanRuns + 2
          /\ hist = [k \in Keys |-> <<>>]
          /\ seen = [k \in Keys |-> {}]
          /\ writers = [k \in Keys |-> {}]
          /\ nreads = 0
          /\ applied = NothingApplied

SpecPlan == InitPlan /\ [][Compactor]_vars

\* The worker alone (no run is inserted), run by the scheduler: its thread
\* takes its next step whenever it has one.
SpecTerminate ==
    /\ SpecPlan
    /\ \/ []<>(worker.pc \notin {"check", "apply", "clear"})
       \/ []<><<worker' # worker>>_vars

\* ------------------------------------ a pass of several groups and a writer
\* The compaction worker starts a pass on two or three stretches of
\* MIN_TABLES_IN_MERGE runs, neighbours of different buckets, so that the
\* plan holds a group for each, while a thread writes and rotates.
InitGroups ==
    \E stretches \in {2, 3}, a \in {0, 1} :
       LET n == stretches * MIN_TABLES_IN_MERGE IN
       /\ logs = ((n + 1) :> [file |-> EmptyFile, mem |-> <<>>])
       /\ append_log = [file |-> n + 1, offset |-> 0]
       /\ logLock = NoThread
       /\ sstables = [i \in 1..n |->
             SizedRun(n - i + 1,
                      IF ((i - 1) \div MIN_TABLES_IN_MERGE) % 2 = 0
                      THEN a ELSE 1 - a)]
       /\ th = [t \in Threads |-> IdleThread]
       /\ compacting = TRUE
       /\ worker = [IdleWorker EXCEPT !.pc = "check"]
       /\ poisoned = FALSE
       /\ pending = {}
       /\ disk = 1..(n + 1)
       /\ nextId = n + 2
       /\ hist = [k \in Keys |-> <<>>]
       /\ seen = [k \in Keys |-> {}]
       /\ writers = [k \in Keys |-> {}]
       /\ nreads = 0
       /\ applied = NothingApplied

NextGroups ==
    \/ KVWriteCall(1, 1, SomeValue(1), MaxGroupWrites)
    \/ KVWrite(1, ExactBloom)
    \/ Compactor

SpecGroups == InitGroups /\ [][NextGroups]_vars

\* ------------------------------------------------- the scanner on buffers
\* The serialized forms of a sequence of records, one after the other.
RECURSIVE SerializeAll(_)
SerializeAll(entries) ==
    IF entries = <<>> THEN <<>>
    ELSE serialize(Head(entries)) \o SerializeAll(Tail(entries))

Zeros(z) == [i \in 1..z |-> ZeroCell]

ScanRecords ==
    LET entries == {KVMemoryRepr(k, v, 1) : k \in Keys, v \in OptionValues}
    IN UNION {[1..n -> entries] : n \in 0..MaxScanRecords}

\* A buffer (held as the bytes of file 1) made of records and a tail: zero
\* bytes, then nothing, a whole record, or a record cut short (inside its
\* length prefix or its payload).
InitScan ==
    LET tailEntries == {KVMemoryRepr(1, NoneValue, 1),
                        KVMemoryRepr(1, SomeValue(1), 1)}
        pieces == {<<>>}
                  \cup {serialize(e) : e \in tailEntries}
                  \cup UNION {{SubSeq(serialize(e), 1, c) :
                                  c \in 1..(SerializedLen(e) - 1)} :
                              e \in tailEntries}
        tails == {Zeros(z) \o x : z \in 0..MaxScanZeros, x \in pieces}
    IN
    \E recs \in ScanRecords, tail \in tails :
       /\ logs = (1 :> [file |-> SerializeAll(recs) \o tail, mem |-> <<>>])
       /\ append_log = [file |-> 1, offset |-> 0]
       /\ logLock = NoThread
       /\ sstables = <<>>
       /\ th = [t \in Threads |-> IdleThread]
       /\ compacting = FALSE
       /\ worker = IdleWorker
       /\ poisoned = FALSE
       /\ pending = {}
       /\ disk = {1}
       /\ nextId = 2
       /\ hist = [k \in Keys |-> <<>>]
       /\ seen = [k \in Keys |-> {}]
       /\ writers = [k \in Keys |-> {}]
       /\ nreads = 0
       /\ applied = NothingApplied

\* deserialize_entries_from_bytes called on the buffer; res is what it
\* returns: Ok with the Vec of records, or Err.
ScanCall(t) ==
    LET r == deserialize_entries_from_bytes(logs[1].file) IN
    /\ th[t].pc = "idle"
    /\ th[t].last # "scan"
    /\ th' = ReadStep(t, [th[t] EXCEPT
                !.last = "scan",
                !.res = IF r.ok
                        THEN [kind |-> "Ok", value |-> r.entries, ver |-> 0]
                        ELSE ErrResult])
    /\ UNCHANGED <<logs, append_log, logVars, sstables, compacting, worker,
                   poisoned, pending, disk, nextId, histVars>>

SpecScan == InitScan /\ [][\E t \in Threads : ScanCall(t)]_vars

\* ------------------------------------- AppendLog (src/append_log/mod.rs)
\* A thread that holds the shared guard of the state while it asks for the
\* exclusive one.
HoldsGuardKept(t, lock) ==
    \/ lock = "state_read" /\ th[t].pc = "al_replace"
    \/ lock = "rotation" /\ th[t].pc \in {"al_state2", "al_offset2", "al_calc2",
                                          "al_replace", "al_build", "al_runlist",
                                          "al_insert"}
    \/ lock = "state_write" /\ th[t].pc \in {"al_build", "al_runlist",
                                             "al_insert", "al_unlock"}
    \/ lock = "state_read" /\ th[t].pc \in {"al_offset", "al_calc", "al_offset2",
                                            "al_calc2", "al_file", "al_mirror",
                                            "al_push", "fk_mirror", "fk_scan"}
    \/ lock = "offset" /\ th[t].pc \in {"al_calc", "al_calc2"}
    \/ lock = "mirror_read" /\ th[t].pc = "fk_scan"
    \/ lock = "mirror_write" /\ th[t].pc = "al_push"
    \/ lock = "runlist" /\ th[t].pc \in {"al_insert", "rd_clone"}

\* The locks of AppendLog and the run-list mutex, each held by the threads
\* that stand between its acquisition and its release:
\*   state_read / state_write  AppendLog.state (RwLock<InnerState>)
\*   offset                    InnerState.1 (the write cursor, a Mutex)
\*   mirror_read / mirror_write  InnerState.2 (RwLock<InMemoryAppendLog>)
\*   rotation                  AppendLog.file_rotation_lock
\*   runlist                   the Mutex of the run list
\* The positions with a 2 are those of the second try_acquire_slot, made
\* under the rotation mutex.
Holds(t, lock) ==
    LET pc == th[t].pc IN
    CASE lock = "state_read" ->
           pc \in {"al_offset", "al_calc", "al_offset2", "al_calc2",
                   "al_file", "al_mirror", "al_push", "fk_mirror", "fk_scan"}
      [] lock = "state_write" ->
           pc \in {"al_build", "al_runlist", "al_insert", "al_unlock"}
      [] lock = "offset" -> pc \in {"al_calc", "al_calc2"}
      [] lock = "mirror_read" -> pc = "fk_scan"
      [] lock = "mirror_write" -> pc = "al_push"
      [] lock = "rotation" ->
           pc \in {"al_state2", "al_offset2", "al_calc2", "al_replace",
                   "al_build", "al_runlist", "al_insert"}
      [] lock = "runlist" -> pc \in {"al_insert", "rd_clone"}
      [] OTHER -> FALSE

\* The lock thread t waits for at its position can be given to it (TRUE at a
\* position that waits for none).  A std RwLock may or may not let a reader
\* in while a writer waits; queued says that it does not.
Grant(t, queued) ==
    LET pc == th[t].pc
        none(lock) == \A u \in Threads : ~Holds(u, lock)
    IN CASE pc \in {"al_state", "al_state2", "fk_state"} ->
              /\ none("state_write")
              /\ queued => \A u \in Threads : th[u].pc # "al_replace"
         [] pc \in {"al_offset", "al_offset2"} -> none("offset")
         [] pc = "al_rotation" -> none("rotation")
         [] pc = "al_replace" -> none("state_read") /\ none("state_write")
         [] pc \in {"al_runlist", "rd_runlist"} -> none("runlist")
         [] pc = "al_mirror" -> none("mirror_read") /\ none("mirror_write")
         [] pc = "fk_mirror" -> none("mirror_write")
         [] OTHER -> TRUE

\* try_acquire_slot and calculate_log_slot (mod.rs:138-156): state.read(),
\* the cursor's lock, the reservation.  With a slot the shared guard goes
\* back to the caller; without one it is dropped.
try_acquire_slot(t) ==
    /\ \/ /\ th[t].pc \in {"al_state", "al_state2"}
          /\ Grant(t, FALSE)
          /\ th' = [th EXCEPT ![t].pc = IF @ = "al_state" THEN "al_offset"
                                        ELSE "al_offset2"]
          /\ UNCHANGED append_log
       \/ /\ th[t].pc \in {"al_offset", "al_offset2"}
          /\ Grant(t, FALSE)
          /\ th' = [th EXCEPT ![t].pc = IF @ = "al_offset" THEN "al_calc"
                                        ELSE "al_calc2"]
          /\ UNCHANGED append_log
       \/ /\ th[t].pc \in {"al_calc", "al_calc2"}
          /\ LET r == acquire_log_slot(SerializedLen(th[t].data),
                                       append_log.offset)
             IN /\ append_log' = [append_log EXCEPT !.offset = r.offset]
                /\ th' = [th EXCEPT
                      ![t].pc = IF r.ok THEN "al_file"
                                ELSE IF @ = "al_calc" THEN "al_rotation"
                                ELSE "al_replace",
                      ![t].slot = r.slot,
                      ![t].log = IF r.ok THEN append_log.file ELSE NoLog]
    /\ UNCHANGED <<logs, logVars, sstables, compacting, worker, poisoned,
                   pending, disk, nextId, histVars>>

\* AppendLog::write_key (mod.rs:62-135) but for its calls of
\* try_acquire_slot: the call, the rotation (the rotation mutex, the new
\* file, state.write(), the replacement, the run built and inserted under
\* the run-list mutex, the two guards dropped, the old file removed, the
\* signal), and the write of the record (the file, the mirror's write lock,
\* the push in slot order).
write_key(t) ==
    \/ /\ th[t].pc = "idle"
       /\ NumWrites < MaxLockWrites
       /\ \E k \in {1}, v \in {SomeValue(1)} :
            /\ th' = [th EXCEPT ![t].pc = "al_state", ![t].last = "write",
                                ![t].key = k,
                                ![t].data = KVMemoryRepr(k, v, Len(hist[k]) + 1)]
            /\ hist' = [hist EXCEPT ![k] = Append(@,
                          [value |-> v, log |-> NoLog, slot |-> 0, done |-> FALSE])]
       /\ UNCHANGED <<logs, append_log, logVars, sstables, compacting, worker,
                      poisoned, pending, disk, nextId, seen, writers, nreads,
                      applied>>
    \/ /\ th[t].pc = "al_rotation"
       /\ Grant(t, FALSE)
       /\ th' = [th EXCEPT ![t].pc = "al_state2"]
       /\ UNCHANGED <<logs, append_log, logVars, sstables, compacting, worker,
                      poisoned, pending, disk, nextId, histVars>>
    \/ /\ th[t].pc = "al_replace"
       /\ Grant(t, FALSE)
       /\ append_log' = [file |-> nextId, offset |-> 0]
       /\ logs' = logs @@ (nextId :> [file |-> EmptyFile, mem |-> <<>>])
       /\ th' = [th EXCEPT ![t].pc = "al_build", ![t].old = append_log.file]
       /\ disk' = disk \cup {nextId}
       /\ nextId' = nextId + 1
       /\ UNCHANGED <<logVars, sstables, compacting, worker, poisoned, pending,
                      histVars>>
    \/ /\ th[t].pc = "al_build"
       /\ LET r == log_content_to_index_and_data(logs[th[t].old].file, {}) IN
          IF r.ok
          THEN /\ th' = [th EXCEPT ![t].pc = "al_runlist",
                                   ![t].table = <<SSTable(nextId, r)>>]
               /\ disk' = disk \cup {nextId}
               /\ nextId' = nextId + 1
          ELSE /\ th' = [th EXCEPT ![t].pc = "idle", ![t].last = "write_err",
                                   ![t].old = NoLog, ![t].data = NoEntry]
               /\ UNCHANGED <<disk, nextId>>
       /\ UNCHANGED <<logs, append_log, logVars, sstables, compacting, worker,
                      poisoned, pending, histVars>>
    \/ /\ th[t].pc = "al_runlist"
       /\ Grant(t, FALSE)
       /\ ~poisoned
       /\ th' = [th EXCEPT ![t].pc = "al_insert"]
       /\ UNCHANGED <<logs, append_log, logVars, sstables, compacting, worker,
                      poisoned, pending, disk, nextId, histVars>>
    \/ /\ th[t].pc = "al_insert"
       /\ sstables' = th[t].table \o sstables
       /\ th' = [th EXCEPT ![t].pc = "al_unlock", ![t].table = <<>>]
       /\ UNCHANGED <<logs, append_log, logVars, compacting, worker, poisoned,
                      pending, disk, nextId, histVars>>
    \/ /\ th[t].pc = "al_unlock"
       /\ th' = [th EXCEPT ![t].pc = "al_signal", ![t].old = NoLog]
       /\ logs' = Prune(logs, {append_log.file})
       /\ disk' = disk \ {th[t].old}
       /\ UNCHANGED <<append_log, logVars, sstables, compacting, worker,
                      poisoned, pending, nextId, histVars>>
    \/ /\ th[t].pc = "al_signal"
       /\ compacting' = SignalCompacting(compacting)
       /\ worker' = SignalWorker(compacting, worker)
       /\ th' = [th EXCEPT ![t].pc = "al_state"]
       /\ UNCHANGED <<logs, append_log, logVars, sstables, poisoned, pending,
                      disk, nextId, histVars>>
    \/ /\ th[t].pc = "al_file"
       /\ logs' = [logs EXCEPT ![th[t].log].file =
                     write_data_at_offset(@, serialize(th[t].data), th[t].slot)]
       /\ th' = [th EXCEPT ![t].pc = "al_mirror"]
       /\ UNCHANGED <<append_log, logVars, sstables, compacting, worker,
                      poisoned, pending, disk, nextId, histVars>>
    \/ /\ th[t].pc = "al_mirror"
       /\ Grant(t, FALSE)
       /\ th' = [th EXCEPT ![t].pc = "al_push"]
       /\ UNCHANGED <<logs, append_log, logVars, sstables, compacting, worker,
                      poisoned, pending, disk, nextId, histVars>>
    \/ /\ th[t].pc = "al_push"
       /\ logs' = [logs EXCEPT ![th[t].log].mem =
                     SelectSeq(@, LAMBDA p : p[1] <= th[t].slot)
                        \o <<<<th[t].slot, th[t].data>>>>
                        \o SelectSeq(@, LAMBDA p : p[1] > th[t].slot)]
       /\ th' = [th EXCEPT ![t].pc = "idle", ![t].log = NoLog,
                           ![t].data = NoEntry, ![t].slot = 0]
       /\ UNCHANGED <<append_log, logVars, sstables, compacting, worker,
                      poisoned, pending, disk, nextId, histVars>>

\* AppendLog::find_key (mod.rs:39-59): the call, state.read(), the mirror's
\* read lock, the search from the newest record; both guards are dropped on
\* return.  A miss goes on to the runs.
find_key(t) ==
    /\ \/ /\ th[t].pc = "idle"
          /\ nreads < MaxLockReads
          /\ \E k \in {1} :
               th' = [th EXCEPT ![t].pc = "fk_state", ![t].last = "read",
                                ![t].key = k]
          /\ nreads' = nreads + 1
       \/ /\ th[t].pc = "fk_state"
          /\ Grant(t, FALSE)
          /\ th' = [th EXCEPT ![t].pc = "fk_mirror"]
          /\ UNCHANGED nreads
       \/ /\ th[t].pc = "fk_mirror"
          /\ Grant(t, FALSE)
          /\ th' = [th EXCEPT ![t].pc = "fk_scan"]
          /\ UNCHANGED nreads
       \/ /\ th[t].pc = "fk_scan"
          /\ LET mem == logs[append_log.file].mem
                 hits == {i \in 1..Len(mem) : mem[i][2].key = th[t].key}
                 res == IF hits = {} THEN NoneResult
                        ELSE EntryResult(
                               mem[CHOOSE i \in hits : \A j \in hits : j <= i][2])
             IN th' = [th EXCEPT ![t].pc = IF res.kind = "None" THEN "rd_runlist"
                                           ELSE "idle",
                                 ![t].res = res]
          /\ UNCHANGED nreads
    /\ UNCHANGED <<logs, append_log, logVars, sstables, compacting, worker,
                   poisoned, pending, disk, nextId, hist, seen, writers, applied>>

\* lib.rs:131-151 after a miss in the log: the run list is cloned under its
\* mutex, the guard is dropped, the runs of the snapshot are searched.
ReadTables(t) ==
    /\ \/ /\ th[t].pc = "rd_runlist"
          /\ Grant(t, FALSE)
          /\ ~poisoned
          /\ th' = [th EXCEPT ![t].pc = "rd_clone"]
       \/ /\ th[t].pc = "rd_clone"
          /\ th' = [th EXCEPT ![t].pc = "rd_find", ![t].table = sstables]
       \/ /\ th[t].pc = "rd_find"
          /\ th' = [th EXCEPT
                ![t].pc = "idle", ![t].table = <<>>,
                ![t].res = IF \A i \in 1..Len(th[t].table) :
                                 th[t].table[i].id \in disk
                           THEN TablesFind(th[t].table, th[t].key)
                           ELSE ErrResult]
    /\ UNCHANGED <<logs, append_log, logVars, sstables, compacting, worker,
                   poisoned, pending, disk, nextId, histVars>>

\* The engine after its MIN_TABLES_IN_MERGE-th rotation: so many runs of one
\* record each, an empty log, the worker just started by the signal, and
\* the rotating writer back at the head of its loop with its record.
InitLock ==
    /\ sstables = [i \in 1..MIN_TABLES_IN_MERGE |->
                     RunOf(MIN_TABLES_IN_MERGE - i + 1, [k \in Keys |->
                                                          IF k = 1 THEN 2 ELSE 0])]
    /\ logs = ((MIN_TABLES_IN_MERGE + 1) :> [file |-> EmptyFile, mem |-> <<>>])
    /\ append_log = [file |-> MIN_TABLES_IN_MERGE + 1, offset |-> 0]
    /\ logLock = NoThread
    /\ th = [t \in Threads |->
               IF t = 1
               THEN [IdleThread EXCEPT !.pc = "al_state", !.last = "write",
                                       !.key = 1,
                                       !.data = KVMemoryRepr(1, SomeValue(1), 1)]
               ELSE IdleThread]
    /\ compacting = TRUE
    /\ worker = [IdleWorker EXCEPT !.pc = "check"]
    /\ poisoned = FALSE
    /\ pending = {}
    /\ disk = 1..(MIN_TABLES_IN_MERGE + 1)
    /\ nextId = MIN_TABLES_IN_MERGE + 2
    /\ hist = [k \in Keys |-> <<>>]
    /\ seen = [k \in Keys |-> {}]
    /\ writers = [k \in Keys |-> {}]
    /\ nreads = 0
    /\ applied = NothingApplied

\* The worker takes the run-list mutex for the clone of its check and for
\* each apply, and holds it over no other step.
NextLock ==
    \/ \E t \in Threads : try_acquire_slot(t)
    \/ \E t \in Threads : write_key(t)
    \/ \E t \in Threads : find_key(t)
    \/ \E t \in Threads : ReadTables(t)
    \/ (\A u \in Threads : ~Holds(u, "runlist")) /\ CompactionCheck
    \/ (\A u \in Threads : ~Holds(u, "runlist")) /\ CompactionApply
    \/ CompactionClear
    \/ Deleter

\* The scheduler runs every thread: a thread inside a call, whose next step
\* stays possible, takes it (weak fairness of the steps of each thread
\* inside a call, written out: the step is impossible again and again, or
\* it is taken again and again).
SpecLock ==
    /\ InitLock
    /\ [][NextLock]_vars
    /\ \A t \in Threads :
          \/ []<>(th[t].pc = "idle" \/ ~Grant(t, FALSE))
          \/ []<><<th[t].pc # "idle" /\ th'[t] # th[t]>>_vars

\* ------------------------------------------------------------------ properties
\* A thread that has returned from a read (and made no call since).
Returned(t) == th[t].pc = "idle" /\ th[t].last = "read"

\* The values of the writes of k from number floor on; with no completed
\* write before the read, the key may also be absent.
AllowedValues(k, floor) ==
    {hist[k][i].value : i \in {j \in 1..Len(hist[k]) : j >= floor}}
        \cup (IF floor = 0 THEN {NoneValue} ELSE {})

DisjointKeysReadYourWrites ==
    \A t \in Threads :
       (/\ Returned(t)
        /\ th[t].calm
        /\ \A k \in Keys : Cardinality(writers[k]) <= 1 /\ AllDone(hist, k))
       => ResValue(th[t].res) \in AllowedValues(th[t].key, th[t].floor)

\* C3: when two threads have written the same key into the same log file, a
\* read that began after both writes returned gives the value of the write
\* with the higher slot offset, whatever the order of the appends to the
\* mirror was, before and after the rotation of that log.
HigherSlotWins ==
    \A t \in Threads :
       LET k == th[t].key IN
       (/\ Returned(t)
        /\ writers[k] = Threads
        /\ Len(hist[k]) = 2
        /\ th[t].allDone /\ th[t].floor = 2
        /\ hist[k][1].log = hist[k][2].log)
       => ResValue(th[t].res) =
             (IF hist[k][1].slot > hist[k][2].slot
              THEN hist[k][1].value ELSE hist[k][2].value)

\* C4: for a key written by one thread, once a read has returned the value
\* of write number i + 1, no read that begins later returns the value of
\* write number i (a different value that no later write wrote again).
MonotonicReads ==
    \A t \in Threads :
       LET k == th[t].key
           i == th[t].res.ver
       IN (Returned(t) /\ Cardinality(writers[k]) <= 1 /\ i > 0)
          => ~ (/\ i + 1 \in th[t].seenAtStart
                /\ \A j \in (i + 1)..Len(hist[k]) :
                      hist[k][j].value # hist[k][i].value)

\* The newest record of k in the mirror, and the record of k in a run, found
\* without the bloom filter, the index or the searches of the read path.
MirrorHolds(mem, k) == \E i \in 1..Len(mem) : mem[i].key = k

NewestInMirror(mem, k) ==
    mem[CHOOSE i \in 1..Len(mem) :
           mem[i].key = k /\ \A j \in (i + 1)..Len(mem) : mem[j].key # k]

RunRecord(t, k) ==
    RunEntries(t)[CHOOSE i \in 1..Len(RunEntries(t)) : RunEntries(t)[i].key = k]

NewestRunValue(tables, k) ==
    LET holders == {j \in 1..Len(tables) : k \in RunKeys(tables[j])} IN
    IF holders = {} THEN NoneValue
    ELSE RunRecord(tables[CHOOSE j \in holders : \A i \in holders : j <= i], k).value

\* C5: a read returns the mirror's newest record of the key if the mirror
\* has one; otherwise it goes to the run list, where the first run from index
\* 0 upward that holds the key decides (its tombstone gives absent, whatever
\* an older run holds); absent only if neither the mirror nor a run holds it.
ReadPrecedence ==
    [][\A t \in Threads :
         /\ (th[t].pc = "idle" /\ th'[t] # th[t] /\ nreads' = nreads + 1)
            => LET k == th'[t].key
                   mem == logs[append_log.file].mem
               IN IF MirrorHolds(mem, k)
                  THEN /\ th'[t].pc = "idle"
                       /\ ResValue(th'[t].res) = NewestInMirror(mem, k).value
                  ELSE th'[t].pc = "tables"
         /\ (th[t].pc = "tables" /\ th'[t].pc = "idle")
            => ResValue(th'[t].res) = NewestRunValue(sstables, th[t].key)]_vars

\* A read returned absent from the tombstone of a run while an older run of
\* the list holds a value of the key.
ReadPrecedenceWitness ==
    /\ Returned(1)
    /\ th[1].res.kind = "Tombstone"
    /\ \E i, j \in 1..Len(sstables) :
          /\ i < j
          /\ th[1].key \in RunKeys(sstables[i])
          /\ RunRecord(sstables[i], th[1].key).ver = th[1].res.ver
          /\ th[1].key \in RunKeys(sstables[j])
          /\ RunRecord(sstables[j], th[1].key).value # NoneValue

\* The key is in the mirror of the current log or in a run of the run list.
Visible(k) ==
    \/ MirrorHolds(logs[append_log.file].mem, k)
    \/ \E i \in 1..Len(sstables) : k \in RunKeys(sstables[i])

\* C6: at every moment at which a read can take the log, a key with a
\* completed write (and never deleted) is in the mirror or in a run: a
\* rotation puts the new run into the run list before it lets go of the log.
NoInvisibleWindow ==
    \A k \in Keys :
       (/\ logLock = NoThread
        /\ LastDone(hist, k) > 0
        /\ \A i \in 1..Len(hist[k]) : hist[k][i].value # NoneValue)
       => Visible(k)

\* C7: a rotation during which no other thread is in a write leaves the
\* result of read(k) unchanged for every k: the run returns what the mirror
\* returned just before.
RotationKeepsReads ==
    [][\A t \in Threads :
         (th[t].pc = "insert" /\ th'[t].pc = "signal" /\ th[t].quiet)
         => ReadAll(logs', append_log', sstables') = th[t].before]_vars

\* C8: applying a merge leaves the result of read(k) unchanged for every k,
\* also when the merge dropped tombstones and when rotations prepended runs
\* while it ran.
MergeKeepsReads ==
    [][(worker.pc = "apply" /\ worker' # worker)
       => ReadAll(logs', append_log', sstables')
             = ReadAll(logs, append_log, sstables)]_vars

\* The last merge applied dropped a tombstone and found runs prepended since
\* its snapshot.
MergeKeepsReadsWitness ==
    applied.n = 1 /\ applied.dropped /\ applied.prepended

CompactionNotMissed ==
    (/\ ~compacting
     /\ worker.pc = "idle"
     /\ \A t \in Threads : th[t].pc # "signal")
    => find_sstables_to_merge(sstables) = <<>>

\* The value of the last write of k that returned Ok; absent if there is none.
LastDoneValue(k) ==
    IF LastDone(hist, k) = 0 THEN NoneValue
    ELSE hist[k][LastDone(hist, k)].value

\* A write returns an error from its rotation: from the creation of the new
\* log ("rotate") or from the building of the run ("build").
RotationFails(t) ==
    /\ th[t].pc \in {"rotate", "build"}
    /\ th'[t].pc = "idle"
    /\ th'[t].last = "write_err"

\* C11: when a rotation fails, with one client thread, the current log file,
\* the write offset, the mirror and the run list are what they were before
\* the rotation began, and every key reads the value of its last completed
\* write.
FailedRotationKeepsState ==
    [][\A t \in Threads :
         RotationFails(t)
         => LET begun == th[t].pc = "build"
                was == IF begun THEN th[t].attempt ELSE append_log
            IN /\ append_log' = was
               /\ logs'[append_log'.file].mem = logs[was.file].mem
               /\ sstables' = sstables
               /\ \A k \in Keys :
                     ReadNow(logs', append_log', sstables', k) = LastDoneValue(k)]_vars

\* The records the scanner returns for the bytes of a log file.
Scanned(id) == deserialize_entries_from_bytes(logs[id].file)

\* C12: with one client thread, a slot left zero-filled by a failed write
\* is skipped by the scanner: the scan of every log file succeeds and
\* returns every record of the file's mirror (the completed writes), so the
\* next rotation succeeds and loses none of them.
ZeroSlotSkipped ==
    \A id \in DOMAIN logs :
       /\ Scanned(id).ok
       /\ \A i \in 1..Len(logs[id].mem) :
             \E j \in 1..Len(Scanned(id).entries) :
                Scanned(id).entries[j] = logs[id].mem[i]

\* The ids of the group the worker is about to install.
GroupIds(w) ==
    [j \in 1..(w.to_merge[w.i][2] - w.to_merge[w.i][1]) |->
        w.current_state[w.to_merge[w.i][1] + j].id]

InWrite(t) ==
    th[t].pc \in {"rotate", "build", "insert", "signal", "acquire", "write", "push"}

RetiredFileRemoved ==
    \A id \in disk : id \in pending \/ OtherOwners(id)

\* history: the writes that were issued a slot, and the end of each slot.
Issued ==
    {p \in Keys \X (1..MaxWrites) :
        p[2] <= Len(hist[p[1]]) /\ hist[p[1]][p[2]].log # NoLog}

SlotOf(p) == hist[p[1]][p[2]].slot

SlotEnd(p) ==
    SlotOf(p) + SerializedLen(KVMemoryRepr(p[1], hist[p[1]][p[2]].value, p[2]))

\* C16: the write offset stays within 0..FILE_SIZE_BYTES, every slot issued
\* lies inside its log file, and no two slots of one log file overlap.
SlotsDisjointInFile ==
    /\ append_log.offset \in 0..FILE_SIZE_BYTES
    /\ \A p \in Issued : SlotOf(p) >= 0 /\ SlotEnd(p) <= FILE_SIZE_BYTES
    /\ \A p, q \in Issued :
          (p # q /\ hist[p[1]][p[2]].log = hist[q[1]][q[2]].log)
             => (SlotEnd(p) <= SlotOf(q) \/ SlotEnd(q) <= SlotOf(p))

\* Two writers hold adjacent slots of one log file, neither write has
\* returned, and the second slot ends at the end of the file.
SlotsDisjointInFileWitness ==
    \E p, q \in Issued :
       /\ p # q
       /\ hist[p[1]][p[2]].log = hist[q[1]][q[2]].log
       /\ ~hist[p[1]][p[2]].done /\ ~hist[q[1]][q[2]].done
       /\ SlotEnd(p) = SlotOf(q)
       /\ SlotEnd(q) = FILE_SIZE_BYTES
       /\ append_log.offset = FILE_SIZE_BYTES

\* Thread u holds a slot of log file id whose record is not yet both in the
\* file and in the mirror.
HoldsSlot(u, id) == th[u].log = id /\ th[u].pc \in {"write", "push"}

\* C17: when a log file has been replaced and is about to be scanned into a
\* run, no writer holds a slot of that file whose record is not yet written
\* to the file and appended to the mirror.
NoSlotHeldAtRotation ==
    \A t \in Threads :
       th[t].pc = "build" => \A u \in Threads : ~HoldsSlot(u, th[t].old)

\* history: record e was written later than record f: into a later log file,
\* or at a higher slot of the same one.
WrittenLater(e, f) ==
    LET he == hist[e.key][e.ver]
        hf == hist[f.key][f.ver]
    IN he.log > hf.log \/ (he.log = hf.log /\ he.slot > hf.slot)

\* C18: the run list is ordered by recency: of two runs that hold a key, the
\* one at the smaller index holds the version written later.
RunsByRecency ==
    \A i, j \in 1..Len(sstables) :
       i < j =>
          \A a \in 1..Len(RunEntries(sstables[i])) :
             \A b \in 1..Len(RunEntries(sstables[j])) :
                RunEntries(sstables[i])[a].key = RunEntries(sstables[j])[b].key
                   => WrittenLater(RunEntries(sstables[i])[a],
                                   RunEntries(sstables[j])[b])

\* The group the worker merged: its runs newest first, whether it reaches
\* the oldest run of the snapshot, and the records of the merged run.
Group == SubSeq(worker.current_state, worker.to_merge[worker.i][1] + 1,
                worker.to_merge[worker.i][2])

ReachesTail == worker.to_merge[worker.i][2] = Len(worker.current_state)

Output == RunEntries(worker.merged[worker.i])

\* The runs of the group that hold key k, and the record of the newest.
Holders(k) == {j \in 1..Len(Group) : k \in RunKeys(Group[j])}

Winner(k) ==
    LET j == CHOOSE j \in Holders(k) : \A h \in Holders(k) : j <= h
        entries == RunEntries(Group[j])
    IN entries[CHOOSE i \in 1..Len(entries) : entries[i].key = k]

MergeNewestWins ==
    worker.pc = "apply" =>
       /\ \A i \in 1..(Len(Output) - 1) : Output[i].key < Output[i + 1].key
       /\ \A i \in 1..Len(Output) :
             Holders(Output[i].key) # {} /\ Output[i] = Winner(Output[i].key)
       /\ \A k \in Keys :
             (Holders(k) # {} /\ \A i \in 1..Len(Output) : Output[i].key # k)
                => (ReachesTail /\ Winner(k).value = NoneValue)

\* Both keys are in the output; one of them is held by several runs of the
\* group with different values, and the newest is not the first run.
MergeNewestWinsWitness ==
    /\ worker.pc = "apply"
    /\ Len(Output) = MaxKey
    /\ \E k \in Keys :
          /\ Cardinality(Holders(k)) >= 2
          /\ 1 \notin Holders(k)
          /\ \E j \in Holders(k) : \E i \in 1..Len(RunEntries(Group[j])) :
                RunEntries(Group[j])[i].key = k
                   /\ RunEntries(Group[j])[i].value # Winner(k).value

\* The (key, value) pairs of a run, an absent value included.
Pairs(t) == {<<RunEntries(t)[i].key, RunEntries(t)[i].value>> :
                i \in 1..Len(RunEntries(t))}

PlanGroups ==
    LET plan == find_sstables_to_merge(sstables)
        n == Len(sstables)
        bucket(i) == get_bucket(sstables[i + 1].file_size)
    IN \A g \in 1..Len(plan) :
          LET start == plan[g][1]
              end == plan[g][2]
          IN /\ 0 <= start /\ start < end /\ end <= n
             /\ end - start >= MIN_TABLES_IN_MERGE
             /\ end - start <= MAX_TABLES_IN_MERGE
             /\ \A i \in start..(end - 1) : bucket(i) = bucket(start)
             /\ g < Len(plan) => plan[g + 1][2] <= start
             /\ \/ start = 0
                \/ end - start = MAX_TABLES_IN_MERGE
                \/ bucket(start - 1) # bucket(start)
             /\ \/ end = n
                \/ bucket(end) # bucket(start)
                \/ /\ end + MAX_TABLES_IN_MERGE <= n
                   /\ \A i \in end..(end + MAX_TABLES_IN_MERGE - 1) :
                         bucket(i) = bucket(start)

\* A stretch of one bucket longer than the cap: the plan has a range of
\* MAX_TABLES_IN_MERGE runs at the oldest end and, next to it, a range of
\* MIN_TABLES_IN_MERGE runs of the same bucket that starts at index 0.
PlanGroupsWitness ==
    LET plan == find_sstables_to_merge(sstables) IN
    /\ Len(plan) = 2
    /\ plan[1] = <<MIN_TABLES_IN_MERGE, MIN_TABLES_IN_MERGE + MAX_TABLES_IN_MERGE>>
    /\ plan[2] = <<0, MIN_TABLES_IN_MERGE>>

\* C23: at most one compaction worker is active.  With the flag clear there
\* is no worker; a worker starts only in a step that sets the flag from false
\* to true; a signal made while the flag is set leaves the flag and the
\* worker as they are; the flag is cleared only by the worker, as its last
\* step, which it comes to only from a pass that planned no merge.
OneWorker ==
    /\ [](~compacting => worker.pc = "idle")
    /\ [][/\ (worker.pc = "idle" /\ worker'.pc # "idle")
             => (~compacting /\ compacting' /\ worker'.pc = "check")
          /\ (compacting /\ \E t \in Threads :
                               th[t].pc = "signal" /\ th'[t].pc # "signal")
             => (compacting' /\ worker' = worker)
          /\ (compacting /\ ~compacting')
             => (worker.pc = "clear" /\ worker'.pc = "idle")
          /\ (worker.pc # "clear" /\ worker'.pc = "clear")
             => (/\ worker.pc = "check"
                 /\ find_sstables_to_merge(sstables) = <<>>
                 /\ sstables' = sstables)]_vars

\* A signal was made while the worker was busy: the worker is about to
\* install a merge, the run list has a run its snapshot has not, and the
\* writer that inserted it has signaled and gone on.
OneWorkerWitness ==
    /\ compacting
    /\ worker.pc = "apply"
    /\ Len(sstables) > Len(worker.current_state)
    /\ \A t \in Threads : th[t].pc \notin {"build", "insert", "signal"}

\* C24: the file of a run is on disk as long as a handle of the run is held:
\* by the run list, by the snapshot of a reader, or by the snapshot and the
\* merged runs of the compaction worker; and no search of a snapshot has
\* met a file that was gone.
HeldRunOnDisk ==
    /\ \A i \in 1..Len(sstables) : sstables[i].id \in disk
    /\ \A t \in Threads :
          /\ \A i \in 1..Len(th[t].table) : th[t].table[i].id \in disk
          /\ th[t].res.kind # "Err"
    /\ WorkerTables \subseteq disk

\* A reader holds a snapshot with runs that a merge has since replaced in
\* the run list; the worker has ended and the deleters of those runs have
\* tried and given up or are still trying; the files are on disk.
HeldRunOnDiskWitness ==
    \E t \in Threads :
       /\ th[t].pc = "find"
       /\ worker.pc = "idle"
       /\ \E i \in 1..Len(th[t].table) :
             /\ \A j \in 1..Len(sstables) : sstables[j].id # th[t].table[i].id
             /\ th[t].table[i].id \in disk
             /\ th[t].table[i].id \notin pending

\* C25: find on a run built from a sorted list with one record per key gives
\* Found(v) for a key the run holds with value v, Tombstone for a key it
\* holds with an absent value, and None for a key it does not hold, whatever
\* window the index selects.
FindInRun ==
    (th[1].last = "find") =>
       LET entries == RunEntries(sstables[1])
           at == {i \in 1..Len(entries) : entries[i].key = th[1].key}
       IN IF at = {} THEN th[1].res.kind = "None"
          ELSE \A i \in at :
                  IF entries[i].value = NoneValue
                  THEN th[1].res.kind = "Tombstone"
                  ELSE th[1].res.kind = "Found"
                          /\ th[1].res.value = entries[i].value

\* A key was found whose record lies between two index entries, in a run
\* whose index has three entries.
FindInRunWitness ==
    /\ th[1].last = "find"
    /\ th[1].res.kind = "Found"
    /\ Len(sstables[1].index) = 3
    /\ sstables[1].index[1].key < th[1].key
    /\ th[1].key < sstables[1].index[2].key

\* C26: the index of a run is non-empty if and only if the run has a record,
\* its keys are strictly ascending, and each of its offsets is the start of
\* the record of its key.
IndexNonEmpty ==
    LET t == sstables[1]
        entries == RunEntries(t)
    IN /\ (Len(t.index) > 0) <=> (Len(entries) > 0)
       /\ \A i \in 1..(Len(t.index) - 1) : t.index[i].key < t.index[i + 1].key
       /\ \A i \in 1..Len(t.index) :
             \E j \in 1..Len(entries) :
                /\ entries[j].key = t.index[i].key
                /\ OffsetOf(entries, j) = t.index[i].offset

\* C27: the run a rotation builds from a log file has its records strictly
\* ascending by key, one record for every key that has a record in the file
\* and for no other key, and the record of a key is the one at the highest
\* offset of the file, a tombstone included.  (Stated for the conversions
\* that return a run.)
RunFromLog ==
    [][\A t \in Threads :
          (th[t].pc = "build" /\ th'[t].pc = "insert") =>
             LET scanned == Scanned(th[t].old).entries
                 out == RunEntries(th'[t].table[1])
             IN /\ \A i \in 1..(Len(out) - 1) : out[i].key < out[i + 1].key
                /\ {out[i].key : i \in 1..Len(out)}
                      = {scanned[i].key : i \in 1..Len(scanned)}
                /\ \A i \in 1..Len(out) :
                      \E j \in 1..Len(scanned) :
                         /\ out[i] = scanned[j]
                         /\ \A h \in (j + 1)..Len(scanned) :
                               scanned[h].key # out[i].key]_vars

\* A run was built from a log file that held a tombstone of a key and, at a
\* higher offset, a value of the same key: the run holds the value only.
RunFromLogWitness ==
    \E t \in Threads : \E k \in Keys :
       /\ th[t].pc = "insert"
       /\ Len(hist[k]) >= 2
       /\ hist[k][1].value = NoneValue /\ hist[k][2].value # NoneValue
       /\ hist[k][1].done /\ hist[k][2].done
       /\ hist[k][1].log = hist[k][2].log
       /\ hist[k][1].slot < hist[k][2].slot
       /\ RunEntries(th[t].table[1]) = <<KVMemoryRepr(k, hist[k][2].value, 2)>>

\* C28: scanning the serialized forms of a sequence of valid records followed
\* by any number of zero bytes returns exactly those records in order (no
\* records for a buffer of zeros only), and when the records are followed by
\* a remainder that fails to deserialize and is not all zeros, the scan
\* returns the error.  The buffer is split into the records and what
\* follows them in every way it can be.
ScanRoundTrip ==
    \A t \in Threads :
       th[t].last = "scan" =>
          \A recs \in ScanRecords :
             LET buffer == logs[1].file
                 head == SerializeAll(recs)
                 rest == SubSeq(buffer, Len(head) + 1, Len(buffer))
             IN (Len(head) <= Len(buffer) /\ SubSeq(buffer, 1, Len(head)) = head)
                   => /\ AllZero(rest)
                         => th[t].res = [kind |-> "Ok", value |-> recs, ver |-> 0]
                      /\ (~deserialize(rest).ok /\ ~AllZero(rest))
                         => th[t].res = ErrResult

ScanRoundTripWitness ==
    \E t \in Threads :
       LET recs == <<KVMemoryRepr(2, NoneValue, 1),
                     KVMemoryRepr(1, SomeValue(2), 1)>>
       IN /\ th[t].last = "scan"
          /\ logs[1].file = SerializeAll(recs) \o Zeros(MaxScanZeros)
          /\ th[t].res = [kind |-> "Ok", value |-> recs, ver |-> 0]

\* C29: an applied merge changes only the merged group: the group stands in
\* the run list as consecutive runs, the runs before it (those prepended by
\* rotations since the plan among them) and the runs after it stay as they
\* are and in their order, and exactly one run, the merged one, stands where
\* the group's first (newest) run stood.
ApplyFrame ==
    [][(/\ worker.pc = "apply"
        /\ worker' # worker
        /\ worker'.pc \in {"apply", "check"})
          => LET g == worker.to_merge[worker.i]
                 old_tables == SubSeq(worker.current_state, g[1] + 1, g[2])
                 n == Len(old_tables)
             IN \E p \in 1..Len(sstables) :
                   /\ p + n - 1 <= Len(sstables)
                   /\ \A j \in 1..n : sstables[p + j - 1] = old_tables[j]
                   /\ sstables' = SubSeq(sstables, 1, p - 1)
                                     \o <<worker.merged[worker.i]>>
                                     \o SubSeq(sstables, p + n, Len(sstables))]_vars

ApplyFrameWitness ==
    /\ worker.pc = "check"
    /\ applied.n = 1
    /\ applied.prepended
    /\ Len(sstables) >= 2

\* C30: no interleaving of writers, rotating writers, readers, the
\* compaction worker and the deleters reaches a deadlock over the locks of
\* the log (the state's read/write lock, the write cursor's mutex, the
\* mirror's lock, the rotation mutex) and the run-list mutex: whenever some
\* thread is inside a call, a thread inside a call can take its next step,
\* even if the state's lock lets no reader in while a writer waits; and a
\* rotator that holds the rotation mutex and waits for the exclusive guard
\* of the state gets it.
NoLockDeadlock ==
    /\ [](\/ \A t \in Threads : th[t].pc = "idle"
          \/ \E t \in Threads :
                /\ th[t].pc # "idle"
                /\ Grant(t, TRUE)
                /\ th[t].pc \in {"al_runlist", "rd_runlist"} => ~poisoned)
    /\ \A t \in Threads :
          (th[t].pc = "al_replace") ~> (th[t].pc = "al_build")

NoLockDeadlockWitness ==
    \E t \in Threads, u \in Threads :
       /\ t # u
       /\ th[t].pc = "al_replace"
       /\ Holds(t, "rotation")
       /\ th[u].pc = "al_file"
       /\ Holds(u, "state_read")
       /\ worker.pc = "apply"

\* C31: at apply time the run ids of every group planned from the snapshot
\* and not yet applied stand in the current run list as consecutive runs in
\* the order of the snapshot, whatever rotations (which insert at the head)
\* and applies of the other groups of the pass came in between; the worker
\* never takes the branch of the group not found.
GroupsStayFound ==
    /\ worker.pc # "panicked"
    /\ ~poisoned
    /\ worker.pc = "apply" =>
          \A g \in worker.i..Len(worker.to_merge) :
             LET start == worker.to_merge[g][1]
                 end == worker.to_merge[g][2]
             IN \E p \in 1..Len(sstables) :
                   /\ p + (end - start) - 1 <= Len(sstables)
                   /\ \A j \in 1..(end - start) :
                         sstables[p + j - 1].id = worker.current_state[start + j].id

GroupsStayFoundWitness ==
    /\ worker.pc = "apply"
    /\ worker.i = 2
    /\ sstables # <<>>
    /\ \A j \in 1..Len(worker.current_state) :
          sstables[1].id # worker.current_state[j].id
    /\ \A g \in 1..Len(worker.merged) : sstables[1].id # worker.merged[g].id

\* C32: with no further run inserted the loop of the compaction worker
\* ends: every apply of a pass takes runs out of the run list (the list gets
\* strictly shorter), a pass whose plan has no group ends the loop, and a
\* worker that started ends with busy cleared.
WorkerLoopEnds ==
    /\ [][/\ (worker.pc = "apply" /\ worker' # worker)
                => Len(sstables') < Len(sstables)
          /\ (worker.pc = "check" /\ worker' # worker
                /\ find_sstables_to_merge(sstables) = <<>>)
                => worker'.pc = "clear" /\ sstables' = sstables]_vars
    /\ (worker.pc = "check") ~> (worker.pc = "idle" /\ ~compacting)

WorkerLoopEndsWitness ==
    /\ worker.pc = "idle"
    /\ ~compacting
    /\ applied.n = 1
    /\ Len(sstables) >= 1
    /\ find_sstables_to_merge(sstables) = <<>>

====
